---- MODULE Spec2Model ----
(***************************************************************************)
(* SimpLLM routing core: classification, policy filtering, model routing,  *)
(* backend selection, session accounting and the feedback log, as a state  *)
(* machine over the handlers of the extension.                             *)
(***************************************************************************)
EXTENDS Integers, Sequences, FiniteSets, TLC

(***************************************************************************)
(* Text.  A string is a sequence of characters; a character is a TLA+      *)
(* string of one letter (non-ASCII letters are written by code point).     *)
(***************************************************************************)
UPPERCASE == <<"A","B","C","D","E","F","G","H","I","J","K","L","M",
               "N","O","P","Q","R","S","T","U","V","W","X","Y","Z">>

LOWERCASE == <<"a","b","c","d","e","f","g","h","i","j","k","l","m",
               "n","o","p","q","r","s","t","u","v","w","x","y","z">>

DIGITS == {"0","1","2","3","4","5","6","7","8","9"}

WHITESPACE == {" "}

\* String.prototype.toLowerCase, one character
toLowerCaseChar(c) ==
  IF \E i \in 1..26 : UPPERCASE[i] = c
  THEN LOWERCASE[CHOOSE i \in 1..26 : UPPERCASE[i] = c]
  ELSE c

\* String.prototype.toLowerCase
toLowerCase(s) == [i \in 1..Len(s) |-> toLowerCaseChar(s[i])]

\* String.prototype.indexOf, 1-based; 0 when w does not occur in s
indexOfSubstring(s, w) ==
  LET hits == {i \in 1..(Len(s) - Len(w) + 1) : SubSeq(s, i, i + Len(w) - 1) = w}
  IN  IF hits = {} THEN 0 ELSE CHOOSE i \in hits : \A j \in hits : i <= j

\* RegExp.prototype.test for a regex that is an alternation of literals
regexTest(alts, s) == \E w \in alts : indexOfSubstring(s, w) > 0

\* Array.prototype.indexOf, 0-based; -1 when x is not in seq
indexOf(seq, x) ==
  IF \E i \in 1..Len(seq) : seq[i] = x
  THEN (CHOOSE i \in 1..Len(seq) : seq[i] = x /\ \A j \in 1..(i-1) : seq[j] # x) - 1
  ELSE -1

(***************************************************************************)
(* Numbers.  Credits are IEEE-754 doubles.  A non-negative double is the   *)
(* little-endian sequence of its bits in units of 2^-54 (the ulp of 0.33), *)
(* without leading zero bits: <<>> is 0.  Every sum of catalog multipliers *)
(* is a multiple of that unit, so the sum is exact before rounding.        *)
(***************************************************************************)
MantissaBits == 53

Zeros(n) == [i \in 1..n |-> 0]

D_0 == <<>>

D_1 == Zeros(54) \o <<1>>

D_3 == Zeros(54) \o <<1, 1>>

\* 0.33 = 0x1.51eb851eb851fp-2 = 5944751508129055 * 2^-54
D_033 == <<1,1,1,1,1,0,0,0,1,0,1,0,0,0,0,1,1,1,0,1,0,1,1,1,1,0,0,0,1,0,1,0,0,0,0,1,1,1,0,1,0,1,1,1,1,0,0,0,1,0,1,0,1>>

BitAt(a, i) == IF i <= Len(a) THEN a[i] ELSE 0

RECURSIVE AddBits(_, _, _, _)
\* exact binary sum of a and b from bit i on, with carry c
AddBits(a, b, i, c) ==
  IF i > Len(a) /\ i > Len(b)
  THEN IF c = 1 THEN <<1>> ELSE <<>>
  ELSE LET s == BitAt(a, i) + BitAt(b, i) + c
       IN  <<s % 2>> \o AddBits(a, b, i + 1, s \div 2)

\* round an exact value to 53 significant bits, ties to even
RoundToDouble(s) ==
  IF Len(s) <= MantissaBits THEN s
  ELSE LET d      == Len(s) - MantissaBits
           guard  == s[d]
           sticky == \E i \in 1..(d - 1) : s[i] = 1
           kept   == Zeros(d) \o SubSeq(s, d + 1, Len(s))
           up     == guard = 1 /\ (sticky \/ s[d + 1] = 1)
       IN  IF up THEN AddBits(kept, Zeros(d) \o <<1>>, 1, 0) ELSE kept

\* the JavaScript + on two non-negative numbers
NumAdd(a, b) == RoundToDouble(AddBits(a, b, 1, 0))

\* the JavaScript <= on two non-negative numbers
NumLeq(a, b) ==
  \/ Len(a) < Len(b)
  \/ /\ Len(a) = Len(b)
     /\ \/ a = b
        \/ \E i \in 1..Len(a) :
              /\ a[i] < b[i]
              /\ \A j \in (i + 1)..Len(a) : a[j] = b[j]

RECURSIVE NatBits(_)
\* the bits of a natural number, lowest first
NatBits(n) == IF n = 0 THEN <<>> ELSE <<n % 2>> \o NatBits(n \div 2)

\* the double of a natural number of credits
NumFromNat(n) == IF n = 0 THEN <<>> ELSE Zeros(54) \o NatBits(n)

RECURSIVE NumTimesNat(_, _)
\* the exact product of a natural number and a non-negative number
NumTimesNat(n, x) ==
  IF n = 0 \/ x = <<>> THEN <<>>
  ELSE LET half == NumTimesNat(n \div 2, x)
       IN  AddBits(IF n % 2 = 1 THEN x ELSE <<>>,
                   IF half = <<>> THEN <<>> ELSE <<0>> \o half, 1, 0)

\* A percentage is NaN, Infinity, or the quotient of num by the positive
\* integer den; the quotient and its product with 100 are kept exact.
NaN == [kind |-> "NaN", num |-> <<>>, den |-> 1]

Infinity == [kind |-> "Infinity", num |-> <<>>, den |-> 1]

Number(n) == [kind |-> "number", num |-> NumFromNat(n), den |-> 1]

\* (total / monthlyBudget) * 100 for a non-negative total and budget
percentOf(total, monthlyBudget) ==
  IF monthlyBudget = 0
  THEN IF total = <<>> THEN NaN ELSE Infinity
  ELSE [kind |-> "number", num |-> NumTimesNat(100, total), den |-> monthlyBudget]

\* p >= n for a natural number n
percentGeq(p, n) ==
  CASE p.kind = "NaN" -> FALSE
    [] p.kind = "Infinity" -> TRUE
    [] OTHER -> NumLeq(NumTimesNat(p.den, NumFromNat(n)), p.num)

\* Math.min(100, p)
MathMin100(p) ==
  IF p.kind = "NaN" THEN NaN ELSE IF percentGeq(p, 100) THEN Number(100) ELSE p

(***************************************************************************)
(* Catalog (models.ts)                                                     *)
(***************************************************************************)
MODELS ==
  <<[id |-> "gpt-4.1", family |-> "gpt-4.1", creditMultiplier |-> D_0, creditTier |-> "free"],
    [id |-> "gpt-4o", family |-> "gpt-4o", creditMultiplier |-> D_0, creditTier |-> "free"],
    [id |-> "gpt-5-mini", family |-> "gpt-5-mini", creditMultiplier |-> D_0, creditTier |-> "free"],
    [id |-> "claude-haiku-4.5", family |-> "claude-3.5-haiku", creditMultiplier |-> D_033, creditTier |-> "cheap"],
    [id |-> "gemini-3-flash", family |-> "gemini-flash", creditMultiplier |-> D_033, creditTier |-> "cheap"],
    [id |-> "gpt-5.1-codex-mini", family |-> "gpt-5.1-codex-mini", creditMultiplier |-> D_033, creditTier |-> "cheap"],
    [id |-> "claude-sonnet-4", family |-> "claude-sonnet-4", creditMultiplier |-> D_1, creditTier |-> "standard"],
    [id |-> "claude-sonnet-4.5", family |-> "claude-3.5-sonnet", creditMultiplier |-> D_1, creditTier |-> "standard"],
    [id |-> "gemini-2.5-pro", family |-> "gemini-2.5-pro", creditMultiplier |-> D_1, creditTier |-> "standard"],
    [id |-> "gemini-3-pro", family |-> "gemini-3-pro", creditMultiplier |-> D_1, creditTier |-> "standard"],
    [id |-> "gpt-5", family |-> "gpt-5", creditMultiplier |-> D_1, creditTier |-> "standard"],
    [id |-> "gpt-5-codex", family |-> "gpt-5-codex", creditMultiplier |-> D_1, creditTier |-> "standard"],
    [id |-> "gpt-5.1", family |-> "gpt-5.1", creditMultiplier |-> D_1, creditTier |-> "standard"],
    [id |-> "gpt-5.1-codex", family |-> "gpt-5.1-codex", creditMultiplier |-> D_1, creditTier |-> "standard"],
    [id |-> "gpt-5.1-codex-max", family |-> "gpt-5.1-codex-max", creditMultiplier |-> D_1, creditTier |-> "standard"],
    [id |-> "gpt-5.2", family |-> "gpt-5.2", creditMultiplier |-> D_1, creditTier |-> "standard"],
    [id |-> "gpt-5.2-codex", family |-> "gpt-5.2-codex", creditMultiplier |-> D_1, creditTier |-> "standard"],
    [id |-> "claude-opus-4.5", family |-> "claude-opus", creditMultiplier |-> D_3, creditTier |-> "premium"]>>

ModelIds == {MODELS[i].id : i \in 1..Len(MODELS)}

TASK_TYPES_LIST ==
  <<"autocomplete", "simple", "function", "algorithm", "test", "debug",
    "refactor", "architecture", "security", "documentation", "conversion",
    "review", "long-context">>

TaskTypes == {TASK_TYPES_LIST[i] : i \in 1..Len(TASK_TYPES_LIST)}

\* a routing table that names a model the catalog does not have
DEFAULT_TASK_ROUTING_retiredModel ==
  [t \in TaskTypes |-> IF t = "long-context" THEN "gemini-1.5-pro" ELSE "gpt-4o"]

\* a routing table that sends every task type to the default model
DEFAULT_TASK_ROUTING_allDefault == [t \in TaskTypes |-> "gpt-4o"]

DEFAULT_TASK_ROUTING ==
  [t \in TaskTypes |->
     CASE t \in {"algorithm", "test", "review"}   -> "claude-sonnet-4.5"
       [] t = "refactor"                          -> "claude-sonnet-4"
       [] t \in {"architecture", "security"}      -> "claude-opus-4.5"
       [] t = "long-context"                      -> "gemini-2.5-pro"
       [] OTHER                                   -> "gpt-4o"]

\* the value of getModel for an id that is not in the catalog
Undefined == [id |-> "undefined", family |-> "undefined", creditMultiplier |-> D_0, creditTier |-> "undefined"]

getModel(id) ==
  IF \E i \in 1..Len(MODELS) : MODELS[i].id = id
  THEN MODELS[CHOOSE i \in 1..Len(MODELS) : MODELS[i].id = id /\ \A j \in 1..(i-1) : MODELS[j].id # id]
  ELSE Undefined

(***************************************************************************)
(* Policy engine and router (pure parts)                                   *)
(***************************************************************************)
tierOrder == <<"free", "cheap", "standard", "premium">>

\* isModelAllowed with the ceiling compared by === instead of <=
isModelAllowed_exactTier(modelDef, config) ==
  IF modelDef.id \in config.blockedModels THEN FALSE
  ELSE indexOf(tierOrder, modelDef.creditTier) = indexOf(tierOrder, config.maxCreditTier)

\* config is the configuration the call reads
isModelAllowed(modelDef, config) ==
  IF modelDef.id \in config.blockedModels THEN FALSE
  ELSE indexOf(tierOrder, modelDef.creditTier) <= indexOf(tierOrder, config.maxCreditTier)

\* getModelForTask with the default routing consulted before the admin override
getModelForTask_defaultFirst(taskType, config) ==
  LET customRouting == config.taskRouting
      override == IF taskType \in DOMAIN customRouting
                  THEN getModel(customRouting[taskType]) ELSE Undefined
      model == getModel(DEFAULT_TASK_ROUTING[taskType])
  IN  IF model # Undefined /\ isModelAllowed(model, config) THEN model
      ELSE IF override # Undefined /\ isModelAllowed(override, config) THEN override
      ELSE getModel("gpt-4o")

getModelForTask(taskType, config) ==
  LET customRouting == config.taskRouting
      override == IF taskType \in DOMAIN customRouting
                  THEN getModel(customRouting[taskType]) ELSE Undefined
      model == getModel(DEFAULT_TASK_ROUTING[taskType])
  IN  IF override # Undefined /\ isModelAllowed(override, config) THEN override
      ELSE IF model # Undefined /\ isModelAllowed(model, config) THEN model
      ELSE getModel("gpt-4o")

\* the optional argument contextSize left out
NoContextSize == -1

\* getRecommendedModel, models.ts lines 326-351: the model of the result
getRecommendedModel(taskType, adminConfig, contextSize) ==
  IF contextSize # NoContextSize /\ contextSize # 0 /\ contextSize > 100000
  THEN getModel("gemini-2.5-pro")
  ELSE LET adminRouting == adminConfig.taskRouting[taskType]
           model == getModel(adminRouting)
       IN  IF adminRouting # "" /\ model # Undefined THEN model
           ELSE getModel(DEFAULT_TASK_ROUTING[taskType])

(***************************************************************************)
(* Classifier (pure parts)                                                 *)
(***************************************************************************)
FALLBACK_RULES ==
  <<
   [label |-> "test", alts |-> {<<"t","e","s","t">>,
        <<"s","p","e","c">>,
        <<"j","e","s","t">>,
        <<"p","y","t","e","s","t">>,
        <<"u","n","i","t">>,
        <<"m","o","c","k">>}],
   [label |-> "debug", alts |-> {<<"d","e","b","u","g">>,
        <<"h","a","t","a">>,
        <<"e","r","r","o","r">>,
        <<"b","u","g">>,
        <<"f","i","x">>,
        <<"c","r","a","s","h">>}],
   [label |-> "security", alts |-> {<<"s","e","c","u","r","i","t","y">>,
        <<"g","U+00FC","v","e","n","l","i","k">>,
        <<"v","u","l","n","e","r","a","b","i","l","i","t","y">>,
        <<"x","s","s">>,
        <<"s","q","l"," ","i","n","j","e","c","t","i","o","n">>}],
   [label |-> "architecture", alts |-> {<<"a","r","c","h","i","t","e","c","t","u","r","e">>,
        <<"m","i","m","a","r","i">>,
        <<"d","e","s","i","g","n">>,
        <<"m","i","c","r","o","s","e","r","v","i","c","e">>,
        <<"s","c","a","l","e">>}],
   [label |-> "refactor", alts |-> {<<"r","e","f","a","c","t","o","r">>,
        <<"y","e","n","i","d","e","n"," ","y","a","z">>,
        <<"r","e","w","r","i","t","e">>,
        <<"c","l","e","a","n">>,
        <<"s","o","l","i","d">>}],
   [label |-> "algorithm", alts |-> {<<"a","l","g","o","r","i","t","h","m">>,
        <<"a","l","g","o","r","i","t","m","a">>,
        <<"s","o","r","t">>,
        <<"s","e","a","r","c","h">>,
        <<"r","e","c","u","r","s","i","v","e">>}],
   [label |-> "review", alts |-> {<<"r","e","v","i","e","w">>,
        <<"i","n","c","e","l","e">>,
        <<"c","h","e","c","k">>,
        <<"b","e","s","t"," ","p","r","a","c","t","i","c","e">>}],
   [label |-> "documentation", alts |-> {<<"d","o","c","u","m","e","n","t">>,
        <<"r","e","a","d","m","e">>,
        <<"j","s","d","o","c">>,
        <<"a","U+00E7","U+0131","k","l","a">>,
        <<"e","x","p","l","a","i","n">>}],
   [label |-> "conversion", alts |-> {<<"c","o","n","v","e","r","t">>,
        <<"d","U+00F6","n","U+00FC","U+015F","t","U+00FC","r">>,
        <<"m","i","g","r","a","t","e">>,
        <<"t","r","a","n","s","f","o","r","m">>}],
   [label |-> "function", alts |-> {<<"f","o","n","k","s","i","y","o","n">>,
        <<"f","u","n","c","t","i","o","n">>,
        <<"m","e","t","h","o","d">>,
        <<"c","l","a","s","s">>,
        <<"w","r","i","t","e">>,
        <<"y","a","z">>}],
   [label |-> "simple", alts |-> {<<"b","a","s","i","t">>,
        <<"s","i","m","p","l","e">>,
        <<"i","m","p","o","r","t">>,
        <<"t","y","p","o">>,
        <<"r","e","n","k">>}],
   [label |-> "autocomplete", alts |-> {<<"t","a","m","a","m","l","a">>,
        <<"c","o","m","p","l","e","t","e">>,
        <<"f","i","n","i","s","h">>}]
  >>

\* fallbackClassify with the rules tried from the last to the first
fallbackClassify_lastMatch(prompt) ==
  LET p == toLowerCase(prompt)
      hits == {i \in 1..Len(FALLBACK_RULES) : regexTest(FALLBACK_RULES[i].alts, p)}
  IN  IF hits = {} THEN "function"
      ELSE FALLBACK_RULES[CHOOSE i \in hits : \A j \in hits : i >= j].label

\* fallbackClassify without its last line
fallbackClassify_noDefault(prompt) ==
  LET p == toLowerCase(prompt)
      hits == {i \in 1..Len(FALLBACK_RULES) : regexTest(FALLBACK_RULES[i].alts, p)}
  IN  IF hits = {} THEN "undefined"
      ELSE FALLBACK_RULES[CHOOSE i \in hits : \A j \in hits : i <= j].label

\* a fallback classifier with a rule for long-context ahead of the others
fallbackClassify_longContext(prompt) ==
  LET p == toLowerCase(prompt)
      hits == {i \in 1..Len(FALLBACK_RULES) : regexTest(FALLBACK_RULES[i].alts, p)}
  IN  IF regexTest({<<"l","o","n","g","-","c","o","n","t","e","x","t">>}, p) THEN "long-context"
      ELSE IF hits = {} THEN "function"
      ELSE FALLBACK_RULES[CHOOSE i \in hits : \A j \in hits : i <= j].label

\* fallbackClassify, lines 124-139
fallbackClassify(prompt) ==
  LET p == toLowerCase(prompt)
      hits == {i \in 1..Len(FALLBACK_RULES) : regexTest(FALLBACK_RULES[i].alts, p)}
  IN  IF hits = {} THEN "function"
      ELSE FALLBACK_RULES[CHOOSE i \in hits : \A j \in hits : i <= j].label

\* String.prototype.match(/TASK:(\S+)/i): the captured group, <<>> when there is no match
matchTask(result) ==
  LET l == toLowerCase(result)
      tag == <<"t","a","s","k",":">>
      starts == {i \in 1..(Len(result) - 5) :
                   SubSeq(l, i, i + 4) = tag /\ result[i + 5] \notin WHITESPACE}
  IN  IF starts = {} THEN <<>>
      ELSE LET i == CHOOSE i \in starts : \A j \in starts : i <= j
               e == CHOOSE e \in (i + 5)..Len(result) :
                       /\ \A k \in (i + 5)..e : result[k] \notin WHITESPACE
                       /\ (e = Len(result) \/ result[e + 1] \in WHITESPACE)
           IN  SubSeq(result, i + 5, e)

\* the spelling of each task type, to compare a parsed label with TASK_TYPES_LIST
TaskTypeText ==
  [t \in TaskTypes |->
     CASE t = "autocomplete"  -> <<"a","u","t","o","c","o","m","p","l","e","t","e">>
       [] t = "simple"        -> <<"s","i","m","p","l","e">>
       [] t = "function"      -> <<"f","u","n","c","t","i","o","n">>
       [] t = "algorithm"     -> <<"a","l","g","o","r","i","t","h","m">>
       [] t = "test"          -> <<"t","e","s","t">>
       [] t = "debug"         -> <<"d","e","b","u","g">>
       [] t = "refactor"      -> <<"r","e","f","a","c","t","o","r">>
       [] t = "architecture"  -> <<"a","r","c","h","i","t","e","c","t","u","r","e">>
       [] t = "security"      -> <<"s","e","c","u","r","i","t","y">>
       [] t = "documentation" -> <<"d","o","c","u","m","e","n","t","a","t","i","o","n">>
       [] t = "conversion"    -> <<"c","o","n","v","e","r","s","i","o","n">>
       [] t = "review"        -> <<"r","e","v","i","e","w">>
       [] t = "long-context"  -> <<"l","o","n","g","-","c","o","n","t","e","x","t">>]

\* classifyPrompt, lines 107-110: the output holds TASK:<label> with a label
\* of TASK_TYPES_LIST
knownLabel(result) ==
  \E t \in TaskTypes : TaskTypeText[t] = toLowerCase(matchTask(result))

\* classifyPrompt, lines 109-111: the task type of a known label
parseLabel(result) ==
  CHOOSE t \in TaskTypes : TaskTypeText[t] = toLowerCase(matchTask(result))

(***************************************************************************)
(* Force aliases (handleChatRequest, lines 260-278)                        *)
(***************************************************************************)
modelPatterns ==
  <<[key |-> <<"o","p","u","s">>, id |-> "claude-opus-4.5"],
    [key |-> <<"s","o","n","n","e","t","4",".","5">>, id |-> "claude-sonnet-4.5"],
    [key |-> <<"s","o","n","n","e","t">>, id |-> "claude-sonnet-4"],
    [key |-> <<"g","e","m","i","n","i","p","r","o">>, id |-> "gemini-2.5-pro"],
    [key |-> <<"g","p","t","5",".","2">>, id |-> "gpt-5.2"],
    [key |-> <<"g","p","t","5",".","1">>, id |-> "gpt-5.1"],
    [key |-> <<"g","p","t","5">>, id |-> "gpt-5"],
    [key |-> <<"g","p","t","4","o">>, id |-> "gpt-4o"],
    [key |-> <<"g","p","t","4",".","1">>, id |-> "gpt-4.1"],
    [key |-> <<"h","a","i","k","u">>, id |-> "claude-haiku-4.5"],
    [key |-> <<"f","l","a","s","h">>, id |-> "gemini-3-flash"],
    [key |-> <<"c","o","d","e","x","m","i","n","i">>, id |-> "gpt-5.1-codex-mini"]>>

isWordChar(c) ==
  \/ c \in DIGITS
  \/ c = "_"
  \/ \E i \in 1..26 : c = UPPERCASE[i] \/ c = LOWERCASE[i]

isTokenChar(c) == isWordChar(c) \/ c = "." \/ c = "-"

\* prompt.match(/@(\w[\w.-]*)/): first and last index of the match, <<0, 0>> for null
forceMatch(prompt) ==
  LET starts == {i \in 1..(Len(prompt) - 1) : prompt[i] = "@" /\ isWordChar(prompt[i + 1])}
  IN  IF starts = {} THEN <<0, 0>>
      ELSE LET i == CHOOSE i \in starts : \A j \in starts : i <= j
               e == CHOOSE e \in (i + 1)..Len(prompt) :
                       /\ \A k \in (i + 1)..e : isTokenChar(prompt[k])
                       /\ (e = Len(prompt) \/ ~isTokenChar(prompt[e + 1]))
           IN  <<i, e>>

isNotHyphen(c) == c # "-"

\* forceMatch[1].toLowerCase().replace(/-/g, '')
aliasKey(group) == SelectSeq(toLowerCase(group), isNotHyphen)

\* modelPatterns[key]: an own key, else a property inherited from
\* Object.prototype, else undefined
lookupModelPattern(key) ==
  IF \E i \in 1..Len(modelPatterns) : modelPatterns[i].key = key
  THEN modelPatterns[CHOOSE i \in 1..Len(modelPatterns) : modelPatterns[i].key = key].id
  ELSE IF key = <<"c","o","n","s","t","r","u","c","t","o","r">> THEN "[Function: Object]"
  ELSE IF key = <<"_","_","p","r","o","t","o","_","_">> THEN "[Object: null prototype]"
  ELSE "undefined"

\* String.prototype.trim
trim(s) ==
  LET solid == {i \in 1..Len(s) : s[i] \notin WHITESPACE}
  IN  IF solid = {} THEN <<>>
      ELSE SubSeq(s, CHOOSE i \in solid : \A j \in solid : i <= j,
                     CHOOSE i \in solid : \A j \in solid : i >= j)

\* s.replace(w, ''): the first occurrence of w removed
replaceFirst(s, w) ==
  LET i == indexOfSubstring(s, w)
  IN  IF i = 0 THEN s ELSE SubSeq(s, 1, i - 1) \o SubSeq(s, i + Len(w), Len(s))

\* lines 261-278: the forced id and the clean prompt, given the pending picker choice
\* the pending choice of the picker kept when the prompt names an alias
parseForce_pendingFirst(prompt, pending) ==
  LET m == forceMatch(prompt)
      token == SubSeq(prompt, m[1], m[2])
      id == IF m[1] = 0 THEN "undefined"
            ELSE lookupModelPattern(aliasKey(SubSeq(prompt, m[1] + 1, m[2])))
  IN  IF id # "undefined"
      THEN [forcedId |-> IF pending # "null" THEN pending ELSE id,
            cleanPrompt |-> trim(replaceFirst(prompt, token))]
      ELSE [forcedId |-> pending, cleanPrompt |-> prompt]

\* lines 261-278: the forced model and the prompt without a recognized alias
parseForce(prompt, pending) ==
  LET m == forceMatch(prompt)
      token == SubSeq(prompt, m[1], m[2])
      id == IF m[1] = 0 THEN "undefined"
            ELSE lookupModelPattern(aliasKey(SubSeq(prompt, m[1] + 1, m[2])))
  IN  IF id # "undefined"
      THEN [forcedId |-> id, cleanPrompt |-> trim(replaceFirst(prompt, token))]
      ELSE [forcedId |-> pending, cleanPrompt |-> prompt]

(***************************************************************************)
(* Inputs and bounds                                                       *)
(***************************************************************************)
\* requests received in one run of Spec; the sessions run longer
MaxRequests == 1

\* chunks a response stream delivers at most
MaxChunks == 1

\* the cap of the feedback log (1000 in feedback.ts), scaled down
FeedbackCap == 2

\* words in a prompt handed to the pure functions
MaxWords == 2

PromptTests == <<"w","r","i","t","e"," ","u","n","i","t"," ","t","e","s","t","s"," ","f","o","r"," ","U","s","e","r","S","e","r","v","i","c","e">>

PromptOpus == <<"@","o","p","u","s"," ","a","n","a","l","y","z","e"," ","t","h","i","s"," ","a","r","c","h","i","t","e","c","t","u","r","e">>

PromptHello == <<"h","e","l","l","o">>

PromptLong == <<"s","u","m","m","a","r","i","z","e"," ","t","h","i","s"," ","l","o","n","g","-","c","o","n","t","e","x","t"," ","l","o","g">>

Prompts == {PromptTests, PromptOpus}

Commands == {"none", "stats", "budget"}

PickerChoices == {"auto", "gpt-4o", "claude-opus-4.5"}

OutUpper == <<"s","u","r","e","."," ","t","a","s","k",":","R","e","v","i","e","w">>

OutUnknown == <<"T","A","S","K",":","c","h","a","t">>

OutNone == <<"I"," ","c","a","n","n","o","t"," ","c","l","a","s","s","i","f","y">>

ClassifierOutputs == {OutUpper, OutUnknown, OutNone}

\* chunk lengths in characters
ChunkLengths == {6}

Families == {MODELS[i].family : i \in 1..Len(MODELS)}

\* the backends selectChatModels({vendor}) may list first
AnyBackends == {"claude-opus"}

NoRouting == [t \in TaskTypes |-> ""]

\* the settings' defaults (the second argument of every config.get)
DefaultConfiguration ==
  [enabled |-> TRUE, classifierModel |-> "gpt-4o", taskRouting |-> NoRouting,
   blockedModels |-> {}, maxCreditTier |-> "premium", showModelInfo |-> TRUE,
   collectFeedback |-> TRUE, monthlyBudget |-> 300, feedbackEndpoint |-> ""]

Configurations ==
  { DefaultConfiguration,
    [DefaultConfiguration EXCEPT !.blockedModels = {"gpt-4o"},
                                 !.maxCreditTier = "cheap",
                                 !.classifierModel = "not-a-model",
                                 !.feedbackEndpoint = "https://admin/feedback"],
    [DefaultConfiguration EXCEPT !.blockedModels = {"claude-sonnet-4.5"},
                                 !.maxCreditTier = "standard",
                                 !.taskRouting = [NoRouting EXCEPT !["test"] = "claude-opus-4.5",
                                                                   !["function"] = "gemini-3-flash",
                                                                   !["debug"] = "not-a-model"],
                                 !.collectFeedback = FALSE],
    [DefaultConfiguration EXCEPT !.enabled = FALSE] }

(***************************************************************************)
(* State                                                                   *)
(***************************************************************************)
VARIABLES
  config,        \* vscode.workspace.getConfiguration('simpllm'), as read now
  sessionStats,  \* lines 25-31; token counts in quarter tokens
  forceModelId,  \* line 34; "null" when no model is pending
  lastRequest,   \* lines 38-43
  feedbackLog,   \* feedback.ts line 19
  req,           \* the handleChatRequest invocations in flight or just ended
  started,       \* the number of requests received
  pushes,        \* the number of entries ever pushed to feedbackLog
  buttons,       \* the feedback buttons shown in the chat (lines 358-360)
  pure           \* a pure function's arguments and result

vars == <<config, sessionStats, forceModelId, lastRequest, feedbackLog, req,
          started, pushes, buttons, pure>>

\* the config object of line 242: the settings handleChatRequest reads from
\* it after its first await (lines 316, 358, 372), and the configuration it
\* was taken from
snapshot(cfg) ==
  [showModelInfo |-> cfg.showModelInfo, collectFeedback |-> cfg.collectFeedback,
   monthlyBudget |-> cfg.monthlyBudget, version |-> cfg]

\* lastRequest = null
NoLastRequest == [set |-> FALSE, prompt |-> <<>>, requestId |-> 0, modelId |-> "", taskType |-> ""]

InitialStats ==
  [requestCount |-> 0, tokenCount |-> [input |-> 0, output |-> 0],
   creditsByModel |-> [m \in {} |-> D_0], taskTypes |-> [t \in {} |-> 0],
   totalCreditsUsed |-> D_0]

\* an invocation that has not started
NotStarted ==
  [pc |-> "idle", outcome |-> "none", errorAt |-> "none", requestId |-> 0,
   config |-> snapshot(DefaultConfiguration), compliant |-> TRUE,
   prompt |-> <<>>, command |-> "none", cleanPrompt |-> <<>>, forcedId |-> "null",
   taskType |-> "none", selectedModelDef |-> "undefined", restricted |-> FALSE,
   selStep |-> 0, backend |-> "none", outputTokens |-> 0, chunks |-> 0,
   primary |-> "none", overrides |-> 0, statsBefore |-> InitialStats,
   prevForced |-> "null", prevCharged |-> "undefined", prevOutcome |-> "none",
   lastBefore |-> NoLastRequest,
   result |-> <<>>, classifierCalls |-> 0, selectionCalls |-> 0, executionCalls |-> 0,
   thrown |-> "none", reported |-> FALSE]

NoPure == [op |-> "none", done |-> FALSE, prompt |-> <<>>, model |-> "undefined",
           blocked |-> {}, low |-> "free", high |-> "free", label |-> "none",
           allowedLow |-> FALSE, allowedHigh |-> FALSE]

Init ==
  /\ config \in Configurations
  /\ sessionStats = InitialStats
  /\ forceModelId = "null"
  /\ lastRequest = NoLastRequest
  /\ feedbackLog = <<>>
  /\ req = [s \in {1} |-> NotStarted]
  /\ started = 0
  /\ pushes = 0
  /\ buttons = {}
  /\ pure = NoPure

(***************************************************************************)
(* Feedback recorder (feedback.ts)                                         *)
(***************************************************************************)
\* persistFeedback with slice(0, 1000) instead of slice(-1000)
persistFeedback_head(log) ==
  IF Len(log) > FeedbackCap THEN SubSeq(log, 1, FeedbackCap) ELSE log

\* persistFeedback, lines 93-95: the log after the trim
persistFeedback(log) ==
  IF Len(log) > FeedbackCap THEN SubSeq(log, Len(log) - FeedbackCap + 1, Len(log)) ELSE log

\* recordFeedback, lines 48-56: the entry; seq numbers the pushes
feedbackEntry(requestId, selectedModel, taskType, rating) ==
  [seq |-> pushes + 1, requestId |-> requestId, selectedModel |-> selectedModel,
   taskType |-> taskType, rating |-> rating, overriddenTo |-> "undefined"]

\* an override entry that leaves overriddenTo out
overrideEntry_noTarget(requestId, originalModel, overriddenTo, taskType) ==
  [seq |-> pushes + 1, requestId |-> requestId, selectedModel |-> originalModel,
   taskType |-> taskType, rating |-> "override", overriddenTo |-> "undefined"]

\* recordOverride, lines 74-81: the entry
overrideEntry(requestId, originalModel, overriddenTo, taskType) ==
  [seq |-> pushes + 1, requestId |-> requestId, selectedModel |-> originalModel,
   taskType |-> taskType, rating |-> "override", overriddenTo |-> overriddenTo]

\* the fold with overrides counted overall and not per model, as byTask does
countEntry_overridesOverallOnly(stats, entry) ==
  LET key == IF entry.rating = "override" THEN "overrides" ELSE entry.rating
      models == DOMAIN stats.byModel \cup {entry.selectedModel}
      byModel == [m \in models |->
                    IF m \in DOMAIN stats.byModel THEN stats.byModel[m]
                    ELSE [positive |-> 0, negative |-> 0, overrides |-> 0]]
  IN  [stats EXCEPT ![key] = @ + 1,
                    !.byModel = IF key = "overrides" THEN byModel
                                ELSE [byModel EXCEPT ![entry.selectedModel][key] = @ + 1]]

\* getFeedbackStats, lines 147-163: one turn of the loop
countEntry(stats, entry) ==
  LET key == IF entry.rating = "override" THEN "overrides" ELSE entry.rating
      overall == IF entry.rating = "positive" THEN "positive"
                 ELSE IF entry.rating = "negative" THEN "negative" ELSE "overrides"
      models == DOMAIN stats.byModel \cup {entry.selectedModel}
      byModel == [m \in models |->
                    IF m \in DOMAIN stats.byModel THEN stats.byModel[m]
                    ELSE [positive |-> 0, negative |-> 0, overrides |-> 0]]
      tasks == DOMAIN stats.byTask \cup {entry.taskType}
      byTask == [t \in tasks |->
                   IF t \in DOMAIN stats.byTask THEN stats.byTask[t]
                   ELSE [positive |-> 0, negative |-> 0]]
  IN  [stats EXCEPT ![overall] = @ + 1,
                    !.byModel = [byModel EXCEPT ![entry.selectedModel][key] = @ + 1],
                    !.byTask = IF entry.rating # "override"
                               THEN [byTask EXCEPT ![entry.taskType][entry.rating] = @ + 1]
                               ELSE byTask]

RECURSIVE foldFeedback(_, _, _)
\* the loop of line 146 from entry i on
foldFeedback(log, i, stats) ==
  IF i > Len(log) THEN stats ELSE foldFeedback(log, i + 1, countEntry(stats, log[i]))

\* getFeedbackStats, lines 129-167
getFeedbackStats(log) ==
  foldFeedback(log, 1,
               [total |-> Len(log), positive |-> 0, negative |-> 0, overrides |-> 0,
                byModel |-> [m \in {} |-> 0], byTask |-> [t \in {} |-> 0]])

\* feedbackLog.push(entry) followed by the synchronous part of persistFeedback
pushEntry(entry) ==
  /\ feedbackLog' = persistFeedback(Append(feedbackLog, entry))
  /\ pushes' = pushes + 1

(***************************************************************************)
(* handleChatRequest, step by step                                         *)
(***************************************************************************)
finish(rec, outcome) == [rec EXCEPT !.pc = "done", !.outcome = outcome]

fail(rec, at) == [rec EXCEPT !.pc = "done", !.outcome = "error", !.errorAt = at]

\* a policy check that also replaces the model once the budget is used up
checkPolicy_budgetAware(rec, cfg) ==
  LET spent == percentGeq(percentOf(rec.statsBefore.totalCreditsUsed, cfg.monthlyBudget), 100)
      allowed == isModelAllowed(getModel(rec.selectedModelDef), cfg) /\ ~spent
      final == IF allowed THEN getModel(rec.selectedModelDef) ELSE getModel("gpt-4o")
  IN  [rec EXCEPT !.restricted = ~allowed,
                  !.selectedModelDef = final.id,
                  !.compliant = TRUE,
                  !.pc = "select", !.selStep = 0]

\* lines 302-309: the policy check, up to the call of selectCopilotModel;
\* cfg is the configuration isModelAllowed reads; compliant records whether
\* that configuration blocks the model executed or has a ceiling below it
checkPolicy(rec, cfg) ==
  LET allowed == isModelAllowed(getModel(rec.selectedModelDef), cfg)
      final == IF allowed THEN getModel(rec.selectedModelDef) ELSE getModel("gpt-4o")
  IN  [rec EXCEPT !.restricted = ~allowed,
                  !.selectedModelDef = final.id,
                  !.compliant = /\ final.id \notin cfg.blockedModels
                                /\ indexOf(tierOrder, final.creditTier)
                                     <= indexOf(tierOrder, cfg.maxCreditTier),
                  !.pc = "select", !.selStep = 0]

\* lines 298-309: routing of a classified request
route(rec, taskType, cfg) ==
  checkPolicy([rec EXCEPT !.taskType = taskType,
                          !.selectedModelDef = getModelForTask(taskType, cfg).id], cfg)

\* classifyPrompt with a catch that throws again
classifyFallback_rethrow(rec, why, cfg) == fail(rec, "classification")

\* classifyPrompt, lines 85, 93 and 115-118, then lines 298-309: the primary
\* classifier gave no label for the reason why; the fallback label, computed
\* once, is routed
classifyFallback(rec, why, cfg) ==
  CHOOSE routed \in {route([rec EXCEPT !.primary = why], label, cfg) :
                       label \in {fallbackClassify(rec.cleanPrompt)}} : TRUE

\* line 291 without its condition
overrideDue_always(last, forcedId) == TRUE

\* line 291 without the comparison of the model ids
overrideDue_anyForced(last, forcedId) == last.set

\* line 291
overrideDue(last, forcedId) == last.set /\ last.modelId # forcedId

\* one routing decision is processed end-to-end before the next begins
Serial == \A s \in DOMAIN req : req[s].pc \in {"idle", "done"}

\* a sub-command placed after lines 262-263, which take the pending choice
handleCommand_takesForced(s, rec, command) ==
  /\ req' = [req EXCEPT ![s] = finish(rec, command)]
  /\ forceModelId' = "null"
  /\ UNCHANGED <<feedbackLog, pushes>>

\* lines 252-258: handleStatsCommand or handleBudgetCommand writes its report
\* and the request returns
handleCommand(s, rec, command) ==
  /\ req' = [req EXCEPT ![s] = finish(rec, command)]
  /\ UNCHANGED <<forceModelId, feedbackLog, pushes>>

\* the forced path with the label asked of the primary classifier
forcedRequest_viaClassifier(rec, f) ==
  [rec EXCEPT !.cleanPrompt = f.cleanPrompt, !.forcedId = f.forcedId,
              !.selectedModelDef = getModel(f.forcedId).id,
              !.primary = "called"]

\* lines 287-288: the forced model and the label of the fallback classifier
forcedRequest(rec, f) ==
  [rec EXCEPT !.cleanPrompt = f.cleanPrompt, !.forcedId = f.forcedId,
              !.selectedModelDef = getModel(f.forcedId).id,
              !.taskType = fallbackClassify(f.cleanPrompt)]

\* lines 242-309, up to the first await: a request with this prompt and command;
\* limit bounds the requests of one run
handleChatRequest(s, prompt, command, limit) ==
  /\ req[s].pc \in {"idle", "done"}
  /\ started < limit
  /\ started' = started + 1
  /\ LET rec == [NotStarted EXCEPT !.requestId = started + 1, !.config = snapshot(config),
                                   !.prompt = prompt, !.command = command,
                                   !.statsBefore = sessionStats,
                                   !.lastBefore = lastRequest,
                                   !.prevForced = req[s].forcedId,
                                   !.prevCharged = req[s].selectedModelDef,
                                   !.prevOutcome = req[s].outcome]
     IN  IF ~config.enabled
         THEN /\ req' = [req EXCEPT ![s] = finish(rec, "disabled")]
              /\ UNCHANGED <<forceModelId, feedbackLog, pushes>>
         ELSE IF command \in {"stats", "budget"}
         THEN handleCommand(s, rec, command)
         ELSE
           LET f == parseForce(prompt, forceModelId)
               forced == forcedRequest(rec, f)
               auto == [rec EXCEPT !.cleanPrompt = f.cleanPrompt]
           IN  /\ forceModelId' = "null"
               /\ IF f.forcedId # "null"
                  THEN IF getModel(f.forcedId) = Undefined
                       THEN \* selectedModelDef.name of undefined, line 289
                            /\ req' = [req EXCEPT ![s] = fail(forced, "reason")]
                            /\ UNCHANGED <<feedbackLog, pushes>>
                       ELSE IF overrideDue(lastRequest, f.forcedId)
                       THEN /\ pushEntry(overrideEntry(rec.requestId, lastRequest.modelId,
                                                       f.forcedId, forced.taskType))
                            /\ req' = [req EXCEPT ![s] = [forced EXCEPT !.pc = "persist",
                                                                        !.overrides = 1]]
                       ELSE /\ req' = [req EXCEPT ![s] = checkPolicy(forced, config)]
                            /\ UNCHANGED <<feedbackLog, pushes>>
                  ELSE /\ IF getModel(config.classifierModel) = Undefined
                          THEN req' = [req EXCEPT ![s] = classifyFallback(auto, "missing", config)]
                          ELSE req' = [req EXCEPT ![s] = [auto EXCEPT !.pc = "classify_select",
                                                                      !.primary = "called"]]
                       /\ UNCHANGED <<feedbackLog, pushes>>
  /\ UNCHANGED <<config, sessionStats, lastRequest, buttons, pure>>

\* classifyPrompt, lines 88-93: selectChatModels for the classifier returns
\* a backend or none, or throws
classifierSelected(s, answer) ==
  /\ req[s].pc = "classify_select"
  /\ IF answer = "found"
     THEN req' = [req EXCEPT ![s].pc = "classify_send"]
     ELSE req' = [req EXCEPT ![s] =
                    classifyFallback(req[s], IF answer = "none" THEN "no_backend" ELSE "select_threw",
                                     config)]
  /\ UNCHANGED <<config, sessionStats, forceModelId, lastRequest, feedbackLog,
                 started, pushes, buttons, pure>>

\* a classifier whose sendRequest is tried a second time after it has thrown
classifierSent_retry(s, threw) ==
  /\ req[s].pc = "classify_send"
  /\ LET rec == [req[s] EXCEPT !.classifierCalls = @ + 1]
     IN  IF threw
         THEN IF rec.classifierCalls < 2
              THEN req' = [req EXCEPT ![s] = rec]
              ELSE req' = [req EXCEPT ![s] = classifyFallback(rec, "send_threw", config)]
         ELSE req' = [req EXCEPT ![s] = [rec EXCEPT !.pc = "classify_stream"]]
  /\ UNCHANGED <<config, sessionStats, forceModelId, lastRequest, feedbackLog,
                 started, pushes, buttons, pure>>

\* classifyPrompt, line 100: sendRequest of the classifier returns or throws
\* (a cancellation throws)
classifierSent(s, threw) ==
  /\ req[s].pc = "classify_send"
  /\ LET rec == [req[s] EXCEPT !.classifierCalls = @ + 1]
     IN  IF threw
         THEN req' = [req EXCEPT ![s] = classifyFallback(rec, "send_threw", config)]
         ELSE req' = [req EXCEPT ![s] = [rec EXCEPT !.pc = "classify_stream"]]
  /\ UNCHANGED <<config, sessionStats, forceModelId, lastRequest, feedbackLog,
                 started, pushes, buttons, pure>>

\* classifyPrompt, lines 101-118: the classifier's stream throws while it is read
classifierStreamFailed(s) ==
  /\ req[s].pc = "classify_stream"
  /\ req' = [req EXCEPT ![s] = classifyFallback(req[s], "stream_threw", config)]
  /\ UNCHANGED <<config, sessionStats, forceModelId, lastRequest, feedbackLog,
                 started, pushes, buttons, pure>>

\* classifyPrompt, lines 101-115: the classifier's stream is drained with this text
classifierStreamed(s, result) ==
  /\ req[s].pc = "classify_stream"
  /\ LET rec == [req[s] EXCEPT !.result = result]
     IN  IF knownLabel(result)
         THEN req' = [req EXCEPT ![s] =
                        route([rec EXCEPT !.primary = "answered"], parseLabel(result), config)]
         ELSE req' = [req EXCEPT ![s] = classifyFallback(rec, "unparsed", config)]
  /\ UNCHANGED <<config, sessionStats, forceModelId, lastRequest, feedbackLog,
                 started, pushes, buttons, pure>>

\* recordOverride, line 84: globalState.update resolves or rejects; then
\* sendToEndpoint, lines 103-109, up to fetch
overridePersisted(s, rejected) ==
  /\ req[s].pc = "persist"
  /\ IF rejected
     THEN req' = [req EXCEPT ![s] = fail(req[s], "persist")]
     ELSE IF config.feedbackEndpoint = ""
     THEN req' = [req EXCEPT ![s] = checkPolicy(req[s], config)]
     ELSE req' = [req EXCEPT ![s].pc = "endpoint"]
  /\ UNCHANGED <<config, sessionStats, forceModelId, lastRequest, feedbackLog,
                 started, pushes, buttons, pure>>

\* sendToEndpoint, lines 109-123: fetch resolves (ok or not) or rejects
overrideDelivered(s) ==
  /\ req[s].pc = "endpoint"
  /\ req' = [req EXCEPT ![s] = checkPolicy(req[s], config)]
  /\ UNCHANGED <<config, sessionStats, forceModelId, lastRequest, feedbackLog,
                 started, pushes, buttons, pure>>

\* the fallback chain in the opposite order
FALLBACKS_reversed == <<"gpt-5-mini", "gpt-4.1", "gpt-4o">>

\* line 150
FALLBACKS == <<"gpt-4o", "gpt-4.1", "gpt-5-mini">>

\* the family selectCopilotModel asks for at its (step+1)-th call of
\* selectChatModels; "any" is the vendor alone
familyAsked(rec) ==
  IF rec.selStep = 0 THEN getModel(rec.selectedModelDef).family
  ELSE IF rec.selStep <= Len(FALLBACKS) THEN getModel(FALLBACKS[rec.selStep]).family
  ELSE "any"

\* selectCopilotModel that starts over when the vendor lists no backend
copilotModelSelected_startsOver(s, found) ==
  /\ req[s].pc = "select"
  /\ LET rec == req[s]
         family == familyAsked(rec)
     IN  /\ found \in {"none", "throw"} \cup (IF family = "any" THEN AnyBackends ELSE {family})
         /\ IF found = "throw"
            THEN req' = [req EXCEPT ![s] = [finish(rec, "no_model") EXCEPT !.errorAt = "selection"]]
            ELSE IF found # "none"
            THEN req' = [req EXCEPT ![s] = [rec EXCEPT !.pc = "send", !.backend = found]]
            ELSE IF family = "any"
            THEN req' = [req EXCEPT ![s] = [rec EXCEPT !.selStep = 0]]
            ELSE req' = [req EXCEPT ![s] = [rec EXCEPT !.selStep = @ + 1]]
  /\ UNCHANGED <<config, sessionStats, forceModelId, lastRequest, feedbackLog,
                 started, pushes, buttons, pure>>

\* selectCopilotModel whose caller goes on to sendRequest without a backend
copilotModelSelected_sendAnyway(s, found) ==
  /\ req[s].pc = "select"
  /\ LET rec == [req[s] EXCEPT !.selectionCalls = @ + 1]
         family == familyAsked(rec)
     IN  /\ found \in {"none", "throw"} \cup (IF family = "any" THEN AnyBackends ELSE {family})
         /\ IF found = "throw" \/ (found = "none" /\ family = "any")
            THEN req' = [req EXCEPT ![s] = [rec EXCEPT !.pc = "send"]]
            ELSE IF found # "none"
            THEN req' = [req EXCEPT ![s] = [rec EXCEPT !.pc = "send", !.backend = found]]
            ELSE req' = [req EXCEPT ![s] = [rec EXCEPT !.selStep = @ + 1]]
  /\ UNCHANGED <<config, sessionStats, forceModelId, lastRequest, feedbackLog,
                 started, pushes, buttons, pure>>

\* selectCopilotModel, lines 144-166: one call of selectChatModels returns a
\* backend of family found, or none ("none"), or throws ("throw"); then lines 310-337
copilotModelSelected(s, found) ==
  /\ req[s].pc = "select"
  /\ LET rec == [req[s] EXCEPT !.selectionCalls = @ + 1]
         family == familyAsked(rec)
     IN  /\ found \in {"none", "throw"} \cup (IF family = "any" THEN AnyBackends ELSE {family})
         /\ IF found = "throw"
            THEN \* the catch of lines 162-165
                 req' = [req EXCEPT ![s] = [finish(rec, "no_model") EXCEPT !.errorAt = "selection"]]
            ELSE IF found # "none"
            THEN req' = [req EXCEPT ![s] = [rec EXCEPT !.pc = "send", !.backend = found]]
            ELSE IF family = "any"
            THEN req' = [req EXCEPT ![s] = finish(rec, "no_model")]
            ELSE req' = [req EXCEPT ![s] = [rec EXCEPT !.selStep = @ + 1]]
  /\ UNCHANGED <<config, sessionStats, forceModelId, lastRequest, feedbackLog,
                 started, pushes, buttons, pure>>

\* a catch that reports every error and returns
executionThrew_swallowAll(rec, error) ==
  [finish(rec, "request_failed") EXCEPT !.thrown = error, !.reported = TRUE]

\* lines 386-393: the catch around the execution; thrown is the error caught
\* and reported tells that line 388 wrote it to the response
executionThrew(rec, error) ==
  IF error = "LanguageModelError"
  THEN [finish(rec, "request_failed") EXCEPT !.thrown = error, !.reported = TRUE]
  ELSE [fail(rec, "execution") EXCEPT !.thrown = error]

\* line 337: model.sendRequest returns the response, or throws a
\* LanguageModelError or another error (a cancellation throws)
requestSent(s, result) ==
  /\ req[s].pc = "send"
  /\ LET rec == [req[s] EXCEPT !.executionCalls = @ + 1]
     IN  IF result = "response"
         THEN req' = [req EXCEPT ![s] = [rec EXCEPT !.pc = "stream"]]
         ELSE req' = [req EXCEPT ![s] = executionThrew(rec, result)]
  /\ UNCHANGED <<config, sessionStats, forceModelId, lastRequest, feedbackLog,
                 started, pushes, buttons, pure>>

\* the slot filled with the prompt as it was typed
lastRequestOf_typedPrompt(rec) ==
  [set |-> TRUE, prompt |-> rec.prompt, requestId |-> rec.requestId,
   modelId |-> rec.selectedModelDef, taskType |-> rec.taskType]

\* line 355: what a completed request leaves in lastRequest
lastRequestOf(rec) ==
  [set |-> TRUE, prompt |-> rec.cleanPrompt, requestId |-> rec.requestId,
   modelId |-> rec.selectedModelDef, taskType |-> rec.taskType]

\* an accounting without line 351
recordCompletion_noTaskType(stats, rec) ==
  LET id == rec.selectedModelDef
      multiplier == getModel(id).creditMultiplier
  IN  [stats EXCEPT !.requestCount = @ + 1,
                    !.tokenCount.input = @ + Len(rec.cleanPrompt),
                    !.tokenCount.output = @ + rec.outputTokens,
                    !.creditsByModel =
                       [m \in DOMAIN @ \cup {id} |->
                          IF m = id
                          THEN NumAdd(IF id \in DOMAIN @ THEN @[id] ELSE D_0, multiplier)
                          ELSE @[m]],
                    !.totalCreditsUsed = NumAdd(@, multiplier)]

\* an accounting that charges the catalog model of the backend that ran
recordCompletion_chargesBackend(stats, rec) ==
  LET id == CHOOSE m \in ModelIds : getModel(m).family = rec.backend
      multiplier == getModel(id).creditMultiplier
      credits == stats.creditsByModel
      tasks == stats.taskTypes
  IN  [requestCount |-> stats.requestCount + 1,
       tokenCount |-> [input |-> stats.tokenCount.input + Len(rec.cleanPrompt),
                       output |-> stats.tokenCount.output + rec.outputTokens],
       creditsByModel |->
         [m \in DOMAIN credits \cup {id} |->
            IF m = id
            THEN NumAdd(IF id \in DOMAIN credits THEN credits[id] ELSE D_0, multiplier)
            ELSE credits[m]],
       taskTypes |->
         [t \in DOMAIN tasks \cup {rec.taskType} |->
            IF t = rec.taskType
            THEN (IF t \in DOMAIN tasks THEN tasks[t] ELSE 0) + 1
            ELSE tasks[t]],
       totalCreditsUsed |-> NumAdd(stats.totalCreditsUsed, multiplier)]

\* an accounting that keeps the credits of the latest model only
recordCompletion_latestModelOnly(stats, rec) ==
  LET id == rec.selectedModelDef
      multiplier == getModel(id).creditMultiplier
      credits == stats.creditsByModel
      tasks == stats.taskTypes
  IN  [requestCount |-> stats.requestCount + 1,
       tokenCount |-> [input |-> stats.tokenCount.input + Len(rec.cleanPrompt),
                       output |-> stats.tokenCount.output + rec.outputTokens],
       creditsByModel |->
         [m \in {id} |-> NumAdd(IF id \in DOMAIN credits THEN credits[id] ELSE D_0, multiplier)],
       taskTypes |->
         [t \in DOMAIN tasks \cup {rec.taskType} |->
            IF t = rec.taskType
            THEN (IF t \in DOMAIN tasks THEN tasks[t] ELSE 0) + 1
            ELSE tasks[t]],
       totalCreditsUsed |-> NumAdd(stats.totalCreditsUsed, multiplier)]

\* lines 346-352 computed from the statistics read when the request came in
recordCompletion_stale(stats, rec) ==
  LET id == rec.selectedModelDef
      multiplier == getModel(id).creditMultiplier
      base == rec.statsBefore
      credits == base.creditsByModel
      tasks == base.taskTypes
  IN  [requestCount |-> base.requestCount + 1,
       tokenCount |-> [input |-> base.tokenCount.input + Len(rec.cleanPrompt),
                       output |-> base.tokenCount.output + rec.outputTokens],
       creditsByModel |->
         [m \in DOMAIN credits \cup {id} |->
            IF m = id
            THEN NumAdd(IF id \in DOMAIN credits THEN credits[id] ELSE D_0, multiplier)
            ELSE credits[m]],
       taskTypes |->
         [t \in DOMAIN tasks \cup {rec.taskType} |->
            IF t = rec.taskType
            THEN (IF t \in DOMAIN tasks THEN tasks[t] ELSE 0) + 1
            ELSE tasks[t]],
       totalCreditsUsed |-> NumAdd(base.totalCreditsUsed, multiplier)]

\* lines 346-352: the accounting of a completion
recordCompletion(stats, rec) ==
  LET id == rec.selectedModelDef
      multiplier == getModel(id).creditMultiplier
      credits == stats.creditsByModel
      tasks == stats.taskTypes
  IN  [requestCount |-> stats.requestCount + 1,
       tokenCount |-> [input |-> stats.tokenCount.input + Len(rec.cleanPrompt),
                       output |-> stats.tokenCount.output + rec.outputTokens],
       creditsByModel |->
         [m \in DOMAIN credits \cup {id} |->
            IF m = id
            THEN NumAdd(IF id \in DOMAIN credits THEN credits[id] ELSE D_0, multiplier)
            ELSE credits[m]],
       taskTypes |->
         [t \in DOMAIN tasks \cup {rec.taskType} |->
            IF t = rec.taskType
            THEN (IF t \in DOMAIN tasks THEN tasks[t] ELSE 0) + 1
            ELSE tasks[t]],
       totalCreditsUsed |-> NumAdd(stats.totalCreditsUsed, multiplier)]

\* lines 339-342: one chunk of the response
chunkStreamed(s, length) ==
  /\ req[s].pc = "stream"
  /\ req[s].chunks < MaxChunks
  /\ req' = [req EXCEPT ![s].chunks = @ + 1, ![s].outputTokens = @ + length]
  /\ UNCHANGED <<config, sessionStats, forceModelId, lastRequest, feedbackLog,
                 started, pushes, buttons, pure>>

\* streamFailed with the accounting done before the stream is drained
streamFailed_charged(s, error) ==
  /\ req[s].pc = "stream"
  /\ sessionStats' = recordCompletion(sessionStats, req[s])
  /\ req' = [req EXCEPT ![s] = executionThrew(req[s], error)]
  /\ UNCHANGED <<config, forceModelId, lastRequest, feedbackLog,
                 started, pushes, buttons, pure>>

\* lines 339 and 386-393: the response stream throws while it is read
streamFailed(s, error) ==
  /\ req[s].pc = "stream"
  /\ req' = [req EXCEPT ![s] = executionThrew(req[s], error)]
  /\ UNCHANGED <<config, sessionStats, forceModelId, lastRequest, feedbackLog,
                 started, pushes, buttons, pure>>

\* lines 343-385: the response stream ends
streamEnded(s) ==
  /\ req[s].pc = "stream"
  /\ LET rec == req[s]
     IN  /\ sessionStats' = recordCompletion(sessionStats, rec)
         /\ lastRequest' = lastRequestOf(rec)
         /\ buttons' = IF rec.config.collectFeedback
                       THEN buttons \cup {[requestId |-> rec.requestId,
                                           modelName |-> rec.selectedModelDef,
                                           taskType |-> rec.taskType]}
                       ELSE buttons
         /\ req' = [req EXCEPT ![s] = finish(rec, "success")]
  /\ UNCHANGED <<config, forceModelId, feedbackLog, started, pushes, pure>>

(***************************************************************************)
(* Commands and the environment                                            *)
(***************************************************************************)
\* showModelPicker, lines 485-499: the user picks Auto or a model
showModelPicker(choice) ==
  /\ forceModelId' = IF choice = "auto" THEN "null" ELSE choice
  /\ forceModelId' # forceModelId
  /\ UNCHANGED <<config, sessionStats, lastRequest, feedbackLog, req, started,
                 pushes, buttons, pure>>

\* retryWithModel, lines 512-514: the user picks a model in the retry picker
retryWithModel(choice) ==
  /\ forceModelId' = choice
  /\ forceModelId' # forceModelId
  /\ UNCHANGED <<config, sessionStats, lastRequest, feedbackLog, req, started,
                 pushes, buttons, pure>>

\* simpllm.feedbackPositive / simpllm.feedbackNegative, lines 613-620: a click
\* on a feedback button; limit bounds the entries pushed before the click
feedbackCommand(b, rating, limit) ==
  /\ b \in buttons
  /\ pushes < limit
  /\ pushEntry(feedbackEntry(b.requestId, b.modelName, b.taskType, rating))
  /\ UNCHANGED <<config, sessionStats, forceModelId, lastRequest, req, started,
                 buttons, pure>>

\* openAdminPanel, lines 654-655: the panel reads the feedback statistics;
\* log is the log before the call and logAfter the log after it
openAdminPanel ==
  /\ UNCHANGED <<config, sessionStats, forceModelId, lastRequest, feedbackLog, req,
                 started, pushes, buttons>>
  /\ pure' = [op |-> "getFeedbackStats", log |-> feedbackLog, logAfter |-> feedbackLog',
              stats |-> getFeedbackStats(feedbackLog)]
  /\ pure' # pure

\* the settings change
configurationChanged(c) ==
  /\ c # config
  /\ config' = c
  /\ UNCHANGED <<sessionStats, forceModelId, lastRequest, feedbackLog, req,
                 started, pushes, buttons, pure>>

Errors == {"LanguageModelError", "Error"}

\* The requests of a session up to the first one that completes, under every
\* configuration and every change of it: lastRequest is still null, so
\* line 291 records no override here (the sessions below go on from there).
Next ==
  \/ \E s \in DOMAIN req, p \in Prompts, c \in Commands :
       Serial /\ ~lastRequest.set /\ handleChatRequest(s, p, c, MaxRequests)
  \/ \E s \in DOMAIN req, a \in {"found", "none", "throw"} : classifierSelected(s, a)
  \/ \E s \in DOMAIN req, threw \in BOOLEAN : classifierSent(s, threw)
  \/ \E s \in DOMAIN req : classifierStreamFailed(s)
  \/ \E s \in DOMAIN req, o \in ClassifierOutputs : classifierStreamed(s, o)
  \/ \E s \in DOMAIN req, f \in Families \cup {"none", "throw"} : copilotModelSelected(s, f)
  \/ \E s \in DOMAIN req, e \in Errors \cup {"response"} : requestSent(s, e)
  \/ \E s \in DOMAIN req, n \in ChunkLengths : chunkStreamed(s, n)
  \/ \E s \in DOMAIN req, e \in Errors : streamFailed(s, e)
  \/ \E s \in DOMAIN req : streamEnded(s)
  \/ \E m \in PickerChoices : showModelPicker(m)
  \/ \E c \in Configurations : configurationChanged(c)

Spec == Init /\ [][Next]_vars

(***************************************************************************)
(* Sessions: several requests one after the other, forced through the      *)
(* picker or automatic with the primary classifier unavailable, under one  *)
(* configuration.                                                          *)
(***************************************************************************)
SessionPicker == {"gpt-4o", "claude-haiku-4.5", "claude-opus-4.5"}

InitSession ==
  /\ Init
  /\ config.enabled

NextSession ==
  \/ \E s \in DOMAIN req : Serial /\ handleChatRequest(s, PromptHello, "none", MaxRequests + 1)
  \/ \E s \in DOMAIN req, a \in {"none", "throw"} : classifierSelected(s, a)
  \/ \E s \in DOMAIN req, rejected \in BOOLEAN : overridePersisted(s, rejected)
  \/ \E s \in DOMAIN req : overrideDelivered(s)
  \/ \E s \in DOMAIN req, f \in Families \cup {"none", "throw"} : copilotModelSelected(s, f)
  \/ \E s \in DOMAIN req, e \in Errors \cup {"response"} : requestSent(s, e)
  \/ \E s \in DOMAIN req, n \in ChunkLengths : chunkStreamed(s, n)
  \/ \E s \in DOMAIN req, e \in Errors : streamFailed(s, e)
  \/ \E s \in DOMAIN req : streamEnded(s)
  \/ \E m \in SessionPicker : showModelPicker(m)

SpecSession == InitSession /\ [][NextSession]_vars

(***************************************************************************)
(* Feedback: completions only, each request forced through the picker,     *)
(* with clicks on the feedback buttons, until the log has overflowed.      *)
(***************************************************************************)
FeedbackPicker == {"gpt-4o", "claude-opus-4.5"}

InitFeedback ==
  /\ Init
  /\ config.enabled
  /\ config.collectFeedback

NextFeedback ==
  \/ \E s \in DOMAIN req :
       Serial /\ forceModelId # "null" /\ handleChatRequest(s, PromptHello, "none", MaxRequests + 1)
  \/ \E s \in DOMAIN req, c \in {"stats", "budget"} :
       Serial /\ handleChatRequest(s, PromptHello, c, MaxRequests + 1)
  \/ \E s \in DOMAIN req : overridePersisted(s, FALSE)
  \/ \E s \in DOMAIN req : overrideDelivered(s)
  \/ \E s \in DOMAIN req : copilotModelSelected(s, getModel(req[s].selectedModelDef).family)
  \/ \E s \in DOMAIN req : requestSent(s, "response")
  \/ \E s \in DOMAIN req : streamEnded(s)
  \/ \E m \in FeedbackPicker : Serial /\ showModelPicker(m)
  \/ \E b \in buttons, rating \in {"positive", "negative"} : feedbackCommand(b, rating, FeedbackCap + 1)
  \/ Serial /\ openAdminPanel

SpecFeedback == InitFeedback /\ [][NextFeedback]_vars

(***************************************************************************)
(* Accounting: completions only, under the default configuration, each     *)
(* request forced through the picker.                                      *)
(***************************************************************************)
AccountingPicker == {"claude-haiku-4.5", "claude-sonnet-4"}

InitAccounting ==
  /\ Init
  /\ config = DefaultConfiguration

NextAccounting ==
  \/ \E s \in DOMAIN req : Serial /\ handleChatRequest(s, PromptHello, "none", MaxRequests + 3)
  \/ \E s \in DOMAIN req : overridePersisted(s, FALSE)
  \/ \E s \in DOMAIN req : copilotModelSelected(s, getModel(req[s].selectedModelDef).family)
  \/ \E s \in DOMAIN req : requestSent(s, "response")
  \/ \E s \in DOMAIN req : streamEnded(s)
  \/ \E m \in AccountingPicker : Serial /\ forceModelId = "null" /\ showModelPicker(m)

SpecAccounting == InitAccounting /\ [][NextAccounting]_vars

(***************************************************************************)
(* The pure functions, applied to arguments drawn at the start.            *)
(***************************************************************************)
Vocabulary ==
  <<<<"h","e","l","l","o">>,
    <<"w","o","r","l","d">>,
    <<"l","a","t","e","s","t">>,
    <<"F","i","x">>,
    <<"x","s","s">>,
    <<"d","e","s","i","g","n">>,
    <<"c","l","e","a","n">>,
    <<"s","o","r","t">>,
    <<"c","h","e","c","k">>,
    <<"e","x","p","l","a","i","n">>,
    <<"m","i","g","r","a","t","e">>,
    <<"c","l","a","s","s">>,
    <<"t","y","p","o">>,
    <<"f","i","n","i","s","h">>,
    <<"t","h","a","n","k","s">>,
    <<"S","c","a","l","e">>,
    <<"d","o","n","e">>>>

RECURSIVE joinWords(_)
\* the words of ws, separated by one space
joinWords(ws) ==
  IF Len(ws) = 0 THEN <<>>
  ELSE IF Len(ws) = 1 THEN Vocabulary[ws[1]]
  ELSE Vocabulary[ws[1]] \o <<" ">> \o joinWords(Tail(ws))

PurePrompts ==
  {joinWords(ws) : ws \in UNION {[1..n -> 1..Len(Vocabulary)] : n \in 1..MaxWords}}

PureBlocked == SUBSET {"gpt-4o", "claude-opus-4.5"}

Tiers == {tierOrder[i] : i \in 1..Len(tierOrder)}

InitPure ==
  /\ config = DefaultConfiguration
  /\ sessionStats = InitialStats
  /\ forceModelId = "null"
  /\ lastRequest = NoLastRequest
  /\ feedbackLog = <<>>
  /\ req = [s \in {1} |-> NotStarted]
  /\ started = 0
  /\ pushes = 0
  /\ buttons = {}
  /\ \/ \E p \in PurePrompts : pure = [NoPure EXCEPT !.op = "fallbackClassify", !.prompt = p]
     \/ \E m \in ModelIds, b \in PureBlocked, lo \in Tiers, hi \in Tiers :
          pure = [NoPure EXCEPT !.op = "isModelAllowed", !.model = m, !.blocked = b,
                                !.low = lo, !.high = hi]

applyFallbackClassify ==
  /\ pure.op = "fallbackClassify"
  /\ ~pure.done
  /\ pure' = [pure EXCEPT !.done = TRUE, !.label = fallbackClassify(pure.prompt)]
  /\ UNCHANGED <<config, sessionStats, forceModelId, lastRequest, feedbackLog, req,
                 started, pushes, buttons>>

applyIsModelAllowed ==
  /\ pure.op = "isModelAllowed"
  /\ ~pure.done
  /\ pure' = [pure EXCEPT
               !.done = TRUE,
               !.allowedLow = isModelAllowed(getModel(pure.model),
                                [DefaultConfiguration EXCEPT !.blockedModels = pure.blocked,
                                                             !.maxCreditTier = pure.low]),
               !.allowedHigh = isModelAllowed(getModel(pure.model),
                                [DefaultConfiguration EXCEPT !.blockedModels = pure.blocked,
                                                             !.maxCreditTier = pure.high])]
  /\ UNCHANGED <<config, sessionStats, forceModelId, lastRequest, feedbackLog, req,
                 started, pushes, buttons>>

NextPure == applyFallbackClassify \/ applyIsModelAllowed

SpecPure == InitPure /\ [][NextPure]_vars

(***************************************************************************)
(* Model selection, lines 285-306 without the awaits, applied to a task    *)
(* type and a forced model (or none) under a configuration drawn at the    *)
(* start.                                                                  *)
(***************************************************************************)
RouterTargets == {"", "not-a-model", "gpt-4o", "gemini-3-flash", "claude-opus-4.5"}

RouterBlocked == SUBSET {"gpt-4o", "claude-opus-4.5", "claude-sonnet-4.5"}

RouterForced == {"null", "gpt-4o", "claude-opus-4.5"}

\* the settings of a call: one taskRouting entry, blockedModels, maxCreditTier
routerConfiguration(p) ==
  [DefaultConfiguration EXCEPT !.taskRouting = [NoRouting EXCEPT ![p.taskType] = p.routed],
                               !.blockedModels = p.blocked,
                               !.maxCreditTier = p.ceiling]

InitRouter ==
  /\ config = DefaultConfiguration
  /\ sessionStats = InitialStats
  /\ forceModelId = "null"
  /\ lastRequest = NoLastRequest
  /\ feedbackLog = <<>>
  /\ req = [s \in {1} |-> NotStarted]
  /\ started = 0
  /\ pushes = 0
  /\ buttons = {}
  /\ \E t \in TaskTypes, r \in RouterTargets, b \in RouterBlocked, c \in Tiers,
        f \in RouterForced :
       pure = [op |-> "getModelForTask", done |-> FALSE, taskType |-> t, routed |-> r,
               blocked |-> b, ceiling |-> c, forced |-> f, chosen |-> "undefined",
               notice |-> FALSE, proceeds |-> FALSE]

\* lines 287 or 298, then 303-309: the forced or the routed model, then the
\* policy check on it; notice is the markdown of line 304, proceeds is the
\* call of selectCopilotModel
applyGetModelForTask ==
  /\ pure.op = "getModelForTask"
  /\ ~pure.done
  /\ LET cfg == routerConfiguration(pure)
         rec == [NotStarted EXCEPT !.forcedId = pure.forced]
         routed == IF pure.forced # "null"
                   THEN checkPolicy([rec EXCEPT !.taskType = pure.taskType,
                                                !.selectedModelDef = getModel(pure.forced).id],
                                    cfg)
                   ELSE route(rec, pure.taskType, cfg)
     IN  pure' = [pure EXCEPT !.done = TRUE, !.chosen = routed.selectedModelDef,
                              !.notice = routed.restricted,
                              !.proceeds = (routed.pc = "select")]
  /\ UNCHANGED <<config, sessionStats, forceModelId, lastRequest, feedbackLog, req,
                 started, pushes, buttons>>

NextRouter == applyGetModelForTask

SpecRouter == InitRouter /\ [][NextRouter]_vars

(***************************************************************************)
(* selectCopilotModel, applied to a catalog model while a set of backend   *)
(* families, drawn at the start, is available from the vendor.             *)
(***************************************************************************)
SelectModels == {"gpt-4o", "claude-sonnet-4.5", "claude-opus-4.5"}

\* the families selectChatModels is asked for, and the one it lists first
\* when asked for the vendor alone
SelectFamilies(m) ==
  {getModel(m).family} \cup {getModel(FALLBACKS[i]).family : i \in 1..Len(FALLBACKS)}
    \cup AnyBackends

\* what selectChatModels returns for a family while available is installed
selectChatModels(available, family) ==
  IF family = "any"
  THEN IF available = {} THEN {"none"} ELSE available \cap AnyBackends
  ELSE IF family \in available THEN {family} ELSE {"none"}

InitSelect ==
  /\ config = DefaultConfiguration
  /\ sessionStats = InitialStats
  /\ forceModelId = "null"
  /\ lastRequest = NoLastRequest
  /\ feedbackLog = <<>>
  /\ started = 0
  /\ pushes = 0
  /\ buttons = {}
  /\ \E m \in SelectModels : \E a \in SUBSET SelectFamilies(m) :
       /\ pure = [op |-> "selectCopilotModel", modelDef |-> m, available |-> a]
       /\ req = [s \in {1} |->
                   checkPolicy([NotStarted EXCEPT !.selectedModelDef = m], DefaultConfiguration)]

NextSelect ==
  \/ \E s \in DOMAIN req :
       \E found \in selectChatModels(pure.available, familyAsked(req[s])) :
         copilotModelSelected(s, found)
  \/ \E s \in DOMAIN req : copilotModelSelected(s, "throw")

SpecSelect == InitSelect /\ [][NextSelect]_vars

(***************************************************************************)
(* The budget displays: the status bar, the warning after a completion and *)
(* the two reports, applied to a total of credits and a monthlyBudget      *)
(* drawn at the start.                                                     *)
(***************************************************************************)
\* lines 207-208 and 223-229
updateStatusBar(total, monthlyBudget) ==
  LET usedPercent == IF monthlyBudget > 0 THEN MathMin100(percentOf(total, monthlyBudget))
                     ELSE Number(0)
  IN  [set |-> TRUE, usedPercent |-> usedPercent,
       backgroundColor |-> IF percentGeq(usedPercent, 90) THEN "statusBarItem.errorBackground"
                           ELSE IF percentGeq(usedPercent, 70) THEN "statusBarItem.warningBackground"
                           ELSE "undefined"]

\* lines 372-381: the check after a completion; warned is the markdown of line 375
budgetWarning(total, monthlyBudget) ==
  LET usedPercent == percentOf(total, monthlyBudget)
  IN  [set |-> TRUE, usedPercent |-> usedPercent, warned |-> percentGeq(usedPercent, 90)]

\* lines 402-403: the number handed to toFixed, or '0'
handleStatsCommand(total, monthlyBudget) ==
  [set |-> TRUE,
   usedPercent |-> IF monthlyBudget > 0 THEN percentOf(total, monthlyBudget) ELSE Number(0)]

\* lines 433-436: the number handed to toFixed
handleBudgetCommand(total, monthlyBudget) ==
  [set |-> TRUE, usedPercent |-> percentOf(total, monthlyBudget)]

\* totals a session reaches: sums of catalog multipliers
BudgetTotals ==
  {D_0, D_033, NumAdd(NumAdd(D_033, D_033), D_033), D_1, D_3,
   NumFromNat(210), NumFromNat(270), NumFromNat(280), NumFromNat(301)}

Budgets == {0, 1, 4, 300}

\* a display that has not been computed
Unset == [set |-> FALSE]

InitBudget ==
  /\ config = DefaultConfiguration
  /\ sessionStats = InitialStats
  /\ forceModelId = "null"
  /\ lastRequest = NoLastRequest
  /\ feedbackLog = <<>>
  /\ req = [s \in {1} |-> NotStarted]
  /\ started = 0
  /\ pushes = 0
  /\ buttons = {}
  /\ \E t \in BudgetTotals, b \in Budgets :
       pure = [op |-> "budget", total |-> t, monthlyBudget |-> b, statusBar |-> Unset,
               warning |-> Unset, stats |-> Unset, budget |-> Unset]

statusBarUpdated ==
  /\ pure.op = "budget"
  /\ ~pure.statusBar.set
  /\ pure' = [pure EXCEPT !.statusBar = updateStatusBar(pure.total, pure.monthlyBudget)]
  /\ UNCHANGED <<config, sessionStats, forceModelId, lastRequest, feedbackLog, req,
                 started, pushes, buttons>>

budgetChecked ==
  /\ pure.op = "budget"
  /\ ~pure.warning.set
  /\ pure' = [pure EXCEPT !.warning = budgetWarning(pure.total, pure.monthlyBudget)]
  /\ UNCHANGED <<config, sessionStats, forceModelId, lastRequest, feedbackLog, req,
                 started, pushes, buttons>>

statsReported ==
  /\ pure.op = "budget"
  /\ ~pure.stats.set
  /\ pure' = [pure EXCEPT !.stats = handleStatsCommand(pure.total, pure.monthlyBudget)]
  /\ UNCHANGED <<config, sessionStats, forceModelId, lastRequest, feedbackLog, req,
                 started, pushes, buttons>>

budgetReported ==
  /\ pure.op = "budget"
  /\ ~pure.budget.set
  /\ pure' = [pure EXCEPT !.budget = handleBudgetCommand(pure.total, pure.monthlyBudget)]
  /\ UNCHANGED <<config, sessionStats, forceModelId, lastRequest, feedbackLog, req,
                 started, pushes, buttons>>

NextBudget == statusBarUpdated \/ budgetChecked \/ statsReported \/ budgetReported

SpecBudget == InitBudget /\ [][NextBudget]_vars

(***************************************************************************)
(* The force alias of a prompt (lines 261-278), applied to prompts built   *)
(* around one @token, with and without a pending choice of the picker.     *)
(***************************************************************************)
\* the text after the @: the twelve aliases as written in the table, other
\* spellings of them, and names that are no alias
ForceTokens ==
  {<<"o","p","u","s">>,
   <<"s","o","n","n","e","t","4",".","5">>,
   <<"s","o","n","n","e","t">>,
   <<"g","e","m","i","n","i","p","r","o">>,
   <<"g","p","t","5",".","2">>,
   <<"g","p","t","5",".","1">>,
   <<"g","p","t","5">>,
   <<"g","p","t","4","o">>,
   <<"g","p","t","4",".","1">>,
   <<"h","a","i","k","u">>,
   <<"f","l","a","s","h">>,
   <<"c","o","d","e","x","m","i","n","i">>,
   <<"O","P","U","S">>,
   <<"g","p","t","-","4","o">>,
   <<"S","o","n","n","e","t","-","4",".","5">>,
   <<"o","p","u","s",".">>,
   <<"o","p","u","s","-">>,
   <<"g","p","t","4">>,
   <<"f","o","o">>,
   <<"c","o","n","s","t","r","u","c","t","o","r">>,
   <<"_","_","p","r","o","t","o","_","_">>}

ForcePrefixes == {<<>>, <<"f","i","x"," ">>}

ForceSuffixes == {<<>>, <<" ","t","h","e"," ","b","u","g">>, <<" ","@","h","a","i","k","u">>}

ForcePrompts ==
  {pre \o <<"@">> \o t \o suf : pre \in ForcePrefixes, t \in ForceTokens, suf \in ForceSuffixes}
    \cup {PromptHello, <<"@"," ","o","p","u","s">>}

ForcePending == {"null", "gpt-4o"}

InitForce ==
  /\ config = DefaultConfiguration
  /\ sessionStats = InitialStats
  /\ forceModelId = "null"
  /\ lastRequest = NoLastRequest
  /\ feedbackLog = <<>>
  /\ req = [s \in {1} |-> NotStarted]
  /\ started = 0
  /\ pushes = 0
  /\ buttons = {}
  /\ \E p \in ForcePrompts, g \in ForcePending :
       pure = [op |-> "parseForce", done |-> FALSE, prompt |-> p, pending |-> g,
               forcedId |-> "null", cleanPrompt |-> <<>>, selectedModelDef |-> "undefined"]

\* lines 261-287: forcedId and cleanPrompt of the prompt, then getModel(forcedId)
applyParseForce ==
  /\ pure.op = "parseForce"
  /\ ~pure.done
  /\ LET f == parseForce(pure.prompt, pure.pending)
     IN  pure' = [pure EXCEPT !.done = TRUE, !.forcedId = f.forcedId,
                              !.cleanPrompt = f.cleanPrompt,
                              !.selectedModelDef = getModel(f.forcedId).id]
  /\ UNCHANGED <<config, sessionStats, forceModelId, lastRequest, feedbackLog, req,
                 started, pushes, buttons>>

NextForce == applyParseForce

SpecForce == InitForce /\ [][NextForce]_vars

(***************************************************************************)
(* Sessions under the settings' defaults: automatic requests while the     *)
(* primary classifier has no backend, and requests forced through the      *)
(* picker, one after the other.                                            *)
(***************************************************************************)
DefaultPrompts == {PromptTests, PromptHello}

DefaultPicker == {"claude-haiku-4.5"}

InitDefault ==
  /\ Init
  /\ config = DefaultConfiguration

\* feedbackEndpoint is empty by default: an override is persisted and not sent
NextDefault ==
  \/ \E s \in DOMAIN req, p \in DefaultPrompts :
       Serial /\ handleChatRequest(s, p, "none", MaxRequests + 1)
  \/ \E s \in DOMAIN req, a \in {"none", "throw"} : classifierSelected(s, a)
  \/ \E s \in DOMAIN req, rejected \in BOOLEAN : overridePersisted(s, rejected)
  \/ \E s \in DOMAIN req, f \in Families \cup {"none"} : copilotModelSelected(s, f)
  \/ \E s \in DOMAIN req, e \in Errors \cup {"response"} : requestSent(s, e)
  \/ \E s \in DOMAIN req, n \in ChunkLengths : chunkStreamed(s, n)
  \/ \E s \in DOMAIN req, e \in Errors : streamFailed(s, e)
  \/ \E s \in DOMAIN req : streamEnded(s)
  \/ \E m \in DefaultPicker : showModelPicker(m)

SpecDefault == InitDefault /\ [][NextDefault]_vars

(***************************************************************************)
(* The routing decision (lines 280-306) of two runs that get the same      *)
(* prompt, pending choice, classifier answer and configuration, and differ *)
(* in the credits used so far and in monthlyBudget.                        *)
(***************************************************************************)
TwoRunsTotals == {D_0, NumFromNat(301)}

TwoRunsBudgets == {0, 300}

\* what classifyPrompt gets from the primary classifier: nothing, or a label
TwoRunsAnswers == {"unavailable", "review", "security"}

TwoRunsPending == {"null", "claude-opus-4.5"}

\* lines 261-306 of one run: the request as it reaches selectCopilotModel
routingDecision(prompt, pending, answer, cfg, total) ==
  LET rec == [NotStarted EXCEPT !.prompt = prompt, !.config = snapshot(cfg),
                                !.statsBefore = [InitialStats EXCEPT !.totalCreditsUsed = total]]
      f == parseForce(prompt, pending)
      auto == [rec EXCEPT !.cleanPrompt = f.cleanPrompt]
  IN  IF f.forcedId # "null"
      THEN IF getModel(f.forcedId) = Undefined
           THEN fail(forcedRequest(rec, f), "reason")
           ELSE checkPolicy(forcedRequest(rec, f), cfg)
      ELSE IF answer = "unavailable"
      THEN classifyFallback(auto, "no_backend", cfg)
      ELSE route([auto EXCEPT !.primary = "answered"], answer, cfg)

InitTwoRuns ==
  /\ config \in Configurations
  /\ config.enabled
  /\ sessionStats = InitialStats
  /\ forceModelId = "null"
  /\ lastRequest = NoLastRequest
  /\ feedbackLog = <<>>
  /\ req = [s \in {1} |-> NotStarted]
  /\ started = 0
  /\ pushes = 0
  /\ buttons = {}
  /\ \E p \in Prompts, g \in TwoRunsPending, a \in TwoRunsAnswers,
        t \in [1..2 -> TwoRunsTotals], b \in [1..2 -> TwoRunsBudgets] :
       pure = [op |-> "routingDecision", done |-> FALSE, prompt |-> p, pending |-> g,
               answer |-> a, total |-> t, monthlyBudget |-> b,
               run |-> [r \in 1..2 |-> NotStarted]]

applyRoutingDecision ==
  /\ pure.op = "routingDecision"
  /\ ~pure.done
  /\ pure' = [pure EXCEPT !.done = TRUE,
                          !.run = [r \in 1..2 |->
                                     routingDecision(pure.prompt, pure.pending, pure.answer,
                                                     [config EXCEPT !.monthlyBudget = pure.monthlyBudget[r]],
                                                     pure.total[r])]]
  /\ UNCHANGED <<config, sessionStats, forceModelId, lastRequest, feedbackLog, req,
                 started, pushes, buttons>>

NextTwoRuns == applyRoutingDecision

SpecTwoRuns == InitTwoRuns /\ [][NextTwoRuns]_vars

(***************************************************************************)
(* Requests in flight together, under the settings' defaults: each slot    *)
(* runs one invocation of handleChatRequest at a time, and the invocations *)
(* interleave at their awaits.                                             *)
(***************************************************************************)
Slots == 1..2

InitConcurrent ==
  /\ config = DefaultConfiguration
  /\ sessionStats = InitialStats
  /\ forceModelId = "null"
  /\ lastRequest = NoLastRequest
  /\ feedbackLog = <<>>
  /\ req = [s \in Slots |-> NotStarted]
  /\ started = 0
  /\ pushes = 0
  /\ buttons = {}
  /\ pure = NoPure

NextConcurrent ==
  \/ \E s \in DOMAIN req, p \in DefaultPrompts : handleChatRequest(s, p, "none", MaxRequests + 1)
  \/ \E s \in DOMAIN req : classifierSelected(s, "none")
  \/ \E s \in DOMAIN req : copilotModelSelected(s, getModel(req[s].selectedModelDef).family)
  \/ \E s \in DOMAIN req, e \in {"response", "LanguageModelError"} : requestSent(s, e)
  \/ \E s \in DOMAIN req, n \in ChunkLengths : chunkStreamed(s, n)
  \/ \E s \in DOMAIN req : streamFailed(s, "Error")
  \/ \E s \in DOMAIN req : streamEnded(s)

SpecConcurrent == InitConcurrent /\ [][NextConcurrent]_vars

(***************************************************************************)
(* Sessions in which requests end in every way: disabled, as a             *)
(* sub-command, without a backend, with a failed or cancelled execution,   *)
(* or completed; the extension is switched off and on between requests.    *)
(***************************************************************************)
LastPrompts == {PromptHello, PromptOpus}

Disabled == [DefaultConfiguration EXCEPT !.enabled = FALSE]

InitLast ==
  /\ Init
  /\ config = DefaultConfiguration

NextLast ==
  \/ \E s \in DOMAIN req, p \in LastPrompts, c \in Commands :
       Serial /\ handleChatRequest(s, p, c, MaxRequests + 1)
  \/ \E s \in DOMAIN req : classifierSelected(s, "none")
  \/ \E s \in DOMAIN req : overridePersisted(s, FALSE)
  \/ \E s \in DOMAIN req, f \in Families \cup {"none"} : copilotModelSelected(s, f)
  \/ \E s \in DOMAIN req, e \in Errors \cup {"response"} : requestSent(s, e)
  \/ \E s \in DOMAIN req, n \in ChunkLengths : chunkStreamed(s, n)
  \/ \E s \in DOMAIN req : streamFailed(s, "Error")
  \/ \E s \in DOMAIN req : streamEnded(s)
  \/ \E c \in {DefaultConfiguration, Disabled} : Serial /\ configurationChanged(c)

SpecLast == InitLast /\ [][NextLast]_vars

(***************************************************************************)
(* getRecommendedModel and getModelForTask on the same task type and the   *)
(* same administrator settings.                                            *)
(***************************************************************************)
ContextSizes == {NoContextSize, 0, 100000, 100001}

InitRecommend ==
  /\ config = DefaultConfiguration
  /\ sessionStats = InitialStats
  /\ forceModelId = "null"
  /\ lastRequest = NoLastRequest
  /\ feedbackLog = <<>>
  /\ req = [s \in {1} |-> NotStarted]
  /\ started = 0
  /\ pushes = 0
  /\ buttons = {}
  /\ \E t \in TaskTypes, r \in RouterTargets, b \in RouterBlocked, c \in Tiers,
        n \in ContextSizes :
       pure = [op |-> "getRecommendedModel", done |-> FALSE, taskType |-> t, routed |-> r,
               blocked |-> b, ceiling |-> c, contextSize |-> n,
               recommended |-> "undefined", forTask |-> "undefined"]

\* both functions are called with the task type and the settings of pure
applyGetRecommendedModel ==
  /\ pure.op = "getRecommendedModel"
  /\ ~pure.done
  /\ LET cfg == routerConfiguration(pure)
     IN  pure' = [pure EXCEPT !.done = TRUE,
                              !.recommended = getRecommendedModel(pure.taskType, cfg,
                                                                  pure.contextSize).id,
                              !.forTask = getModelForTask(pure.taskType, cfg).id]
  /\ UNCHANGED <<config, sessionStats, forceModelId, lastRequest, feedbackLog, req,
                 started, pushes, buttons>>

NextRecommend == applyGetRecommendedModel

SpecRecommend == InitRecommend /\ [][NextRecommend]_vars

(***************************************************************************)
(* The pending choice: requests with and without an alias, sub-commands    *)
(* and a switched-off extension, with the picker and the retry picker used *)
(* at any moment, and every way a request ends.                            *)
(***************************************************************************)
RetryChoices == {"claude-haiku-4.5"}

PendingPicker == {"auto", "gpt-4o"}

InitPending ==
  /\ Init
  /\ config = DefaultConfiguration

NextPending ==
  \/ \E s \in DOMAIN req, p \in LastPrompts, c \in Commands :
       Serial /\ handleChatRequest(s, p, c, MaxRequests + 1)
  \/ \E s \in DOMAIN req : classifierSelected(s, "none")
  \/ \E s \in DOMAIN req : overridePersisted(s, FALSE)
  \/ \E s \in DOMAIN req, f \in Families \cup {"none"} : copilotModelSelected(s, f)
  \/ \E s \in DOMAIN req, e \in {"response", "LanguageModelError"} : requestSent(s, e)
  \/ \E s \in DOMAIN req : streamEnded(s)
  \/ \E m \in PendingPicker : showModelPicker(m)
  \/ \E m \in RetryChoices : retryWithModel(m)
  \/ \E c \in {DefaultConfiguration, Disabled} : Serial /\ configurationChanged(c)

SpecPending == InitPending /\ [][NextPending]_vars

(***************************************************************************)
(* Termination: every external call a request waits for (the classifier,   *)
(* globalState.update, fetch, selectChatModels, sendRequest, the response  *)
(* stream) eventually returns or throws, so a suspended request eventually *)
(* takes its next step.                                                    *)
(***************************************************************************)
LiveConfiguration == [DefaultConfiguration EXCEPT !.feedbackEndpoint = "https://admin/feedback"]

InitLive ==
  /\ config = LiveConfiguration
  /\ sessionStats = InitialStats
  /\ forceModelId = "null"
  /\ lastRequest = NoLastRequest
  /\ feedbackLog = <<>>
  /\ req = [s \in {1} |-> NotStarted]
  /\ started = 0
  /\ pushes = 0
  /\ buttons = {}
  /\ pure = NoPure

\* a suspended request is resumed: the call it awaits has returned or thrown
RequestResumed ==
  \/ \E s \in DOMAIN req, a \in {"found", "none", "throw"} : classifierSelected(s, a)
  \/ \E s \in DOMAIN req, threw \in BOOLEAN : classifierSent(s, threw)
  \/ \E s \in DOMAIN req : classifierStreamFailed(s)
  \/ \E s \in DOMAIN req, o \in {OutUpper, OutNone} : classifierStreamed(s, o)
  \/ \E s \in DOMAIN req, rejected \in BOOLEAN : overridePersisted(s, rejected)
  \/ \E s \in DOMAIN req : overrideDelivered(s)
  \/ \E s \in DOMAIN req, f \in Families \cup {"none", "throw"} : copilotModelSelected(s, f)
  \/ \E s \in DOMAIN req, e \in Errors \cup {"response"} : requestSent(s, e)
  \/ \E s \in DOMAIN req, n \in ChunkLengths : chunkStreamed(s, n)
  \/ \E s \in DOMAIN req, e \in Errors : streamFailed(s, e)
  \/ \E s \in DOMAIN req : streamEnded(s)

NextLive ==
  \/ \E s \in DOMAIN req, p \in LastPrompts, c \in Commands :
       Serial /\ handleChatRequest(s, p, c, MaxRequests + 1)
  \/ RequestResumed
  \/ \E c \in {LiveConfiguration, [LiveConfiguration EXCEPT !.enabled = FALSE]} :
       Serial /\ configurationChanged(c)

SpecLive == InitLive /\ [][NextLive]_vars /\ WF_vars(RequestResumed)

(***************************************************************************)
(* Classification: requests whose primary classifier is missing,          *)
(* unavailable, throws or answers, with answers that hold a label, a label *)
(* followed by punctuation, an unknown label or none; and requests forced  *)
(* through the picker, which are not classified by it.                     *)
(***************************************************************************)
ClassifyPrompts == DefaultPrompts \cup {PromptLong}

ClassifyPicker == {"gemini-2.5-pro"}

OutDotted == <<"T","A","S","K",":","d","e","b","u","g",".">>

OutSecond == <<"T","A","S","K",":","n","/","a"," ","T","A","S","K",":","r","e","v","i","e","w">>

OutLongContext == <<"T","A","S","K",":","l","o","n","g","-","c","o","n","t","e","x","t">>

ClassifyOutputs == ClassifierOutputs \cup {OutDotted, OutSecond, OutLongContext}

ClassifyConfigurations ==
  {DefaultConfiguration, [DefaultConfiguration EXCEPT !.classifierModel = "not-a-model"]}

InitClassify ==
  /\ config \in ClassifyConfigurations
  /\ sessionStats = InitialStats
  /\ forceModelId = "null"
  /\ lastRequest = NoLastRequest
  /\ feedbackLog = <<>>
  /\ req = [s \in {1} |-> NotStarted]
  /\ started = 0
  /\ pushes = 0
  /\ buttons = {}
  /\ pure = NoPure

NextClassify ==
  \/ \E s \in DOMAIN req, p \in ClassifyPrompts :
       Serial /\ handleChatRequest(s, p, "none", MaxRequests + 1)
  \/ \E s \in DOMAIN req, a \in {"found", "none", "throw"} : classifierSelected(s, a)
  \/ \E s \in DOMAIN req, threw \in BOOLEAN : classifierSent(s, threw)
  \/ \E s \in DOMAIN req : classifierStreamFailed(s)
  \/ \E s \in DOMAIN req, o \in ClassifyOutputs : classifierStreamed(s, o)
  \/ \E s \in DOMAIN req : overridePersisted(s, FALSE)
  \/ \E m \in ClassifyPicker : Serial /\ showModelPicker(m)
  \/ \E s \in DOMAIN req : copilotModelSelected(s, getModel(req[s].selectedModelDef).family)
  \/ \E s \in DOMAIN req : requestSent(s, "response")
  \/ \E s \in DOMAIN req : streamEnded(s)

SpecClassify == InitClassify /\ [][NextClassify]_vars

(***************************************************************************)
(* Properties                                                              *)
(***************************************************************************)
\* C1: the model a request is executed with is not in blockedModels and is
\* not above maxCreditTier, in the configuration the policy check read.
C1_ChosenModelWithinPolicy ==
  \A s \in DOMAIN req : req[s].pc \in {"select", "send", "stream"} => req[s].compliant

RECURSIVE CreditSums(_, _, _)
\* the sums of the values of credits at keys, added to acc in every order
CreditSums(credits, keys, acc) ==
  IF keys = {} THEN {acc}
  ELSE UNION {CreditSums(credits, keys \ {k}, NumAdd(acc, credits[k])) : k \in keys}

\* C2: totalCreditsUsed equals the sum of the values of creditsByModel
\* (added in some order of the keys).
C2_TotalEqualsSum ==
  sessionStats.totalCreditsUsed
    \in CreditSums(sessionStats.creditsByModel, DOMAIN sessionStats.creditsByModel, D_0)

\* a request that forces a model right after a completed request, and has
\* passed line 293
ForcedAfterCompletion(rec) ==
  /\ rec.pc # "idle"
  /\ rec.forcedId # "null"
  /\ rec.errorAt # "reason"
  /\ rec.prevOutcome = "success"

\* C3 as stated: after a completed request that forced X, forcing X again
\* appends no override entry, forcing another model appends exactly one.
C3_SameForcedNoOverride ==
  \A s \in DOMAIN req :
    ForcedAfterCompletion(req[s]) /\ req[s].prevForced # "null"
      => req[s].overrides = IF req[s].forcedId = req[s].prevForced THEN 0 ELSE 1

\* C3 as amended: after a completed request, a request that forces X appends
\* no override entry when X is the model the completed request was charged to
\* and exactly one when X is another model.
C3_OverrideIffChargedModelDiffers ==
  \A s \in DOMAIN req :
    ForcedAfterCompletion(req[s])
      => req[s].overrides = IF req[s].forcedId = req[s].prevCharged THEN 0 ELSE 1

\* a model forced twice in a row, charged to the substitute the first time,
\* is recorded as an override the second time
C3_Witness ==
  \E s \in DOMAIN req :
    /\ ForcedAfterCompletion(req[s])
    /\ req[s].forcedId = req[s].prevForced
    /\ req[s].forcedId # req[s].prevCharged
    /\ req[s].overrides = 1

\* the creditsByModel entry of id: <<value>>, or <<>> when the key is absent
CreditEntry(stats, id) ==
  IF id \in DOMAIN stats.creditsByModel THEN <<stats.creditsByModel[id]>> ELSE <<>>

\* C4: a completed request that forced a model X the policy disallows ran
\* with gpt-4o, emitted the restriction notice, and its credit is recorded
\* under creditsByModel['gpt-4o'] and not under creditsByModel[X].
C4_ForcedDisallowedChargedToDefault ==
  \A s \in DOMAIN req :
    req[s].outcome = "success" /\ req[s].forcedId # "null" /\ req[s].restricted
      => /\ req[s].selectedModelDef = "gpt-4o"
         /\ "gpt-4o" \in DOMAIN sessionStats.creditsByModel
         /\ CreditEntry(sessionStats, req[s].forcedId)
              = CreditEntry(req[s].statsBefore, req[s].forcedId)

\* C5: the feedback log never holds more than FeedbackCap entries, and it
\* holds exactly the most recently pushed ones, in the order of the pushes.
C5_LogHoldsMostRecent ==
  /\ Len(feedbackLog) <= FeedbackCap
  /\ Len(feedbackLog) = IF pushes < FeedbackCap THEN pushes ELSE FeedbackCap
  /\ \A i \in 1..Len(feedbackLog) : feedbackLog[i].seq = pushes - Len(feedbackLog) + i

\* more entries were pushed than the log holds
C5_Witness == pushes > FeedbackCap /\ Len(feedbackLog) = FeedbackCap

ClassifierFailures ==
  {"missing", "no_backend", "select_threw", "send_threw", "stream_threw", "unparsed"}

\* what fallbackClassify returns for the prompts of the requests, with a
\* forcing token removed
FallbackLabel ==
  [p \in {parseForce(q, "null").cleanPrompt : q \in Prompts \cup {PromptHello, PromptLong}}
     |-> fallbackClassify(p)]

\* C6: however the primary classifier fails, the request is labelled by the
\* fallback classifier and goes on to model selection; a request ends only
\* after classifyPrompt has returned, never with a classification error.
C6_ClassifierFailureFallsBack ==
  \A s \in DOMAIN req :
    /\ req[s].primary \in ClassifierFailures
         => /\ req[s].taskType = FallbackLabel[req[s].cleanPrompt]
            /\ req[s].pc \in {"select", "send", "stream", "done"}
    /\ req[s].primary = "called"
         => req[s].pc \in {"classify_select", "classify_send", "classify_stream"}
    /\ req[s].errorAt # "classification"

\* the classifier's stream threw and the request waits for a backend
C6_Witness ==
  \E s \in DOMAIN req :
    /\ req[s].primary = "stream_threw"
    /\ req[s].pc = "select"
    /\ req[s].taskType = "test"

\* C7: a request whose execution threw, at sendRequest or while the stream
\* was read, leaves sessionStats as it was when the request arrived.
C7_FailedExecutionLeavesStats ==
  \A s \in DOMAIN req :
    /\ req[s].pc = "done"
    /\ \/ req[s].outcome = "request_failed"
       \/ req[s].outcome = "error" /\ req[s].errorAt = "execution"
    => sessionStats = req[s].statsBefore

\* a stream that threw after a chunk, in a session with an earlier completion
C7_Witness ==
  \E s \in DOMAIN req :
    /\ req[s].outcome = "request_failed"
    /\ req[s].chunks > 0
    /\ sessionStats.requestCount > 0

\* C8: recording an override never fails the request: no request ends with
\* the error of a failed persist.
C8_OverrideNeverFailsRequest ==
  \A s \in DOMAIN req : req[s].errorAt # "persist"

\* C9: a model allowed under a ceiling is allowed under every higher ceiling.
C9_AllowedIsMonotonic ==
  /\ pure.op = "isModelAllowed"
  /\ pure.done
  /\ indexOf(tierOrder, pure.low) <= indexOf(tierOrder, pure.high)
  => (pure.allowedLow => pure.allowedHigh)

\* a model allowed under a ceiling and under a higher one
C9_Witness ==
  /\ pure.op = "isModelAllowed"
  /\ pure.done
  /\ indexOf(tierOrder, pure.low) < indexOf(tierOrder, pure.high)
  /\ pure.allowedLow
  /\ pure.allowedHigh

\* no keyword of any rule occurs in the lowercased prompt
NoKeyword(prompt) ==
  \A i \in 1..Len(FALLBACK_RULES) :
    \A w \in FALLBACK_RULES[i].alts : indexOfSubstring(toLowerCase(prompt), w) = 0

\* C10: fallbackClassify returns a task type for every prompt, and 'function'
\* for a prompt without any keyword.
C10_FallbackIsTotal ==
  pure.op = "fallbackClassify" /\ pure.done
    => /\ pure.label \in TaskTypes
       /\ NoKeyword(pure.prompt) => pure.label = "function"

\* a prompt without keywords, labelled function
C10_Witness ==
  /\ pure.op = "fallbackClassify"
  /\ pure.done
  /\ NoKeyword(pure.prompt)
  /\ pure.label = "function"

\* the keyword classes a prompt contains: the labels of the rules one of
\* whose keywords occurs in the lowercased prompt
KeywordClasses(prompt) ==
  {FALLBACK_RULES[i].label : i \in {j \in 1..Len(FALLBACK_RULES) :
      \E w \in FALLBACK_RULES[j].alts : indexOfSubstring(toLowerCase(prompt), w) > 0}}

PriorityOrder ==
  <<"test", "debug", "security", "architecture", "refactor", "algorithm", "review",
    "documentation", "conversion", "function", "simple", "autocomplete">>

\* C11: fallbackClassify returns the first label, in the order test, debug,
\* security, architecture, refactor, algorithm, review, documentation,
\* conversion, function, simple, autocomplete, whose keyword class the prompt
\* contains; a prompt with test and debug vocabulary is labelled test.
C11_FirstMatchingRuleWins ==
  pure.op = "fallbackClassify" /\ pure.done /\ KeywordClasses(pure.prompt) # {}
    => LET classes == KeywordClasses(pure.prompt)
           first == CHOOSE i \in 1..Len(PriorityOrder) :
                      /\ PriorityOrder[i] \in classes
                      /\ \A j \in 1..(i - 1) : PriorityOrder[j] \notin classes
       IN  pure.label = PriorityOrder[first]

\* a prompt with test and debug vocabulary, labelled test
C11_Witness ==
  /\ pure.op = "fallbackClassify"
  /\ pure.done
  /\ {"test", "debug"} \subseteq KeywordClasses(pure.prompt)
  /\ pure.label = "test"

\* the policy as the settings state it: id is not blocked and its tier is
\* not above the ceiling
PassesPolicy(id, blocked, ceiling) ==
  /\ id \notin blocked
  /\ \E i \in 1..Len(tierOrder), j \in 1..Len(tierOrder) :
       /\ tierOrder[i] = getModel(id).creditTier
       /\ tierOrder[j] = ceiling
       /\ i <= j

\* C12: in the automatic path the model chosen is taskRouting[taskType] when
\* that names a catalog model that passes the policy, else the default
\* routing table's model when it passes the policy, else gpt-4o.
C12_RoutingPrecedence ==
  pure.op = "getModelForTask" /\ pure.done /\ pure.forced = "null"
    => pure.chosen =
         IF pure.routed \in ModelIds /\ PassesPolicy(pure.routed, pure.blocked, pure.ceiling)
         THEN pure.routed
         ELSE IF PassesPolicy(DEFAULT_TASK_ROUTING[pure.taskType], pure.blocked, pure.ceiling)
         THEN DEFAULT_TASK_ROUTING[pure.taskType]
         ELSE "gpt-4o"

\* an admin override that the policy rejects, and a default entry it accepts
C12_Witness ==
  /\ pure.op = "getModelForTask"
  /\ pure.done
  /\ pure.forced = "null"
  /\ pure.routed = "claude-opus-4.5"
  /\ pure.ceiling = "standard"
  /\ pure.taskType = "test"
  /\ pure.chosen = "claude-sonnet-4.5"

\* the policy made gpt-4o take the place of the model routing preferred: the
\* forced model, or the default routing entry and the admin override if any
DefaultSubstituted ==
  /\ pure.chosen = "gpt-4o"
  /\ IF pure.forced # "null"
     THEN /\ pure.forced # "gpt-4o"
          /\ ~PassesPolicy(pure.forced, pure.blocked, pure.ceiling)
     ELSE /\ DEFAULT_TASK_ROUTING[pure.taskType] # "gpt-4o"
          /\ ~PassesPolicy(DEFAULT_TASK_ROUTING[pure.taskType], pure.blocked, pure.ceiling)
          /\ pure.routed \in ModelIds
               => /\ pure.routed # "gpt-4o"
                  /\ ~PassesPolicy(pure.routed, pure.blocked, pure.ceiling)

\* C13: whenever the policy substitutes gpt-4o for the model routing
\* preferred, the restriction notice is emitted and the request goes on to
\* backend selection.
C13_SubstitutionIsAnnounced ==
  pure.op = "getModelForTask" /\ pure.done /\ DefaultSubstituted
    => pure.notice /\ pure.proceeds

\* budgetPercent as the specification defines it: min(100, total /
\* monthlyBudget * 100) when monthlyBudget > 0, else 0
BudgetPercent(total, monthlyBudget) ==
  IF monthlyBudget > 0
  THEN IF NumLeq(NumFromNat(monthlyBudget), total) THEN Number(100)
       ELSE [kind |-> "number", num |-> NumTimesNat(100, total), den |-> monthlyBudget]
  ELSE Number(0)

\* p and q are the same number
SamePercent(p, q) ==
  /\ p.kind = "number"
  /\ q.kind = "number"
  /\ NumTimesNat(q.den, p.num) = NumTimesNat(p.den, q.num)

\* C14: the percentage computed by the status bar, by the check after a
\* completion, by the stats report and by the budget report is budgetPercent.
C14_PercentIsClamped ==
  pure.op = "budget"
    => \A site \in {pure.statusBar, pure.warning, pure.stats, pure.budget} :
         site.set
           => SamePercent(site.usedPercent, BudgetPercent(pure.total, pure.monthlyBudget))

\* the signalling state the thresholds give for budgetPercent
SignalFor(total, monthlyBudget) ==
  LET p == BudgetPercent(total, monthlyBudget)
  IN  IF NumLeq(NumTimesNat(p.den, NumFromNat(90)), p.num) THEN "hard warning"
      ELSE IF NumLeq(NumTimesNat(p.den, NumFromNat(70)), p.num) THEN "soft warning"
      ELSE "normal"

\* C15: the status bar shows the error colour exactly in the hard warning
\* state (budgetPercent >= 90), the warning colour exactly in the soft warning
\* state (70 <= budgetPercent < 90) and no colour otherwise, and the warning
\* after a completion is given exactly in the hard warning state; 280 credits
\* of a budget of 300 are a hard warning.
C15_SignalFollowsThresholds ==
  pure.op = "budget"
    => LET signal == SignalFor(pure.total, pure.monthlyBudget)
       IN  /\ pure.statusBar.set
                => pure.statusBar.backgroundColor =
                     CASE signal = "hard warning" -> "statusBarItem.errorBackground"
                       [] signal = "soft warning" -> "statusBarItem.warningBackground"
                       [] OTHER -> "undefined"
           /\ pure.warning.set => (pure.warning.warned <=> signal = "hard warning")
           /\ pure.total = NumFromNat(280) /\ pure.monthlyBudget = 300
                => signal = "hard warning"

\* the families selectCopilotModel asks for, in the order of the claim: the
\* family of the chosen model, then those of gpt-4o, gpt-4.1 and gpt-5-mini
SelectionOrder(m) ==
  <<getModel(m).family, getModel("gpt-4o").family, getModel("gpt-4.1").family,
    getModel("gpt-5-mini").family>>

\* the backend of a request that has one is the first available one in the
\* order of the claim, or any available one when none of these is available
FirstAvailableReturned(rec) ==
  rec.pc = "send"
    => LET order == SelectionOrder(pure.modelDef)
           hits == {i \in 1..Len(order) : order[i] \in pure.available}
       IN  IF hits # {}
           THEN rec.backend = order[CHOOSE i \in hits : \A j \in hits : i <= j]
           ELSE rec.backend \in pure.available

\* C16 as stated: selectCopilotModel returns the first available backend in
\* the order own family, gpt-4o, gpt-4.1, gpt-5-mini, any; it returns no
\* backend only when no backend of the vendor is available.
C16_NoBackendOnlyWhenNoneAvailable ==
  pure.op = "selectCopilotModel"
    => \A s \in DOMAIN req :
         /\ FirstAvailableReturned(req[s])
         /\ req[s].outcome = "no_model" => pure.available = {}

\* C16 as amended: the same, but no backend is returned also when a call of
\* selectChatModels throws, whatever is available.
C16_FirstAvailableUnlessThrown ==
  pure.op = "selectCopilotModel"
    => \A s \in DOMAIN req :
         /\ FirstAvailableReturned(req[s])
         /\ req[s].outcome = "no_model"
              => pure.available = {} \/ req[s].errorAt = "selection"
         /\ req[s].outcome = "no_model" /\ req[s].errorAt # "selection"
              => /\ pure.available = {}
                 /\ req[s].selStep = Len(SelectionOrder(pure.modelDef))

\* the third entry of the chain is returned while the first two and the
\* chosen model's family are missing
C16_Witness ==
  /\ pure.op = "selectCopilotModel"
  /\ pure.modelDef = "claude-sonnet-4.5"
  /\ pure.available = {"gpt-5-mini", "claude-opus"}
  /\ \E s \in DOMAIN req : req[s].pc = "send" /\ req[s].backend = "gpt-5-mini"

\* C17: a request for which no backend is obtained ends with the no_model
\* result after at most one walk of the chain, without sendRequest being
\* called, and leaves sessionStats and lastRequest as they were; sendRequest
\* is called only on a backend.
C17_NoBackendIsTerminal ==
  \A s \in DOMAIN req :
    /\ req[s].outcome = "no_model"
         => /\ req[s].pc = "done"
            /\ req[s].backend = "none"
            /\ req[s].chunks = 0
            /\ req[s].selStep <= 4
            /\ sessionStats = req[s].statsBefore
            /\ lastRequest = req[s].lastBefore
    /\ req[s].pc \in {"send", "stream"} \/ req[s].outcome \in {"success", "request_failed"}
         => req[s].backend # "none"

\* the whole chain was walked in vain, in a session with an earlier completion
C17_Witness ==
  \E s \in DOMAIN req :
    /\ req[s].outcome = "no_model"
    /\ req[s].errorAt # "selection"
    /\ req[s].selStep = 4
    /\ req[s].lastBefore.set
    /\ sessionStats.requestCount > 0

\* C18: a request whose model is forced, by the picker or by a recognized
\* alias in the prompt, never calls the primary classifier; its task type
\* is the label the fallback classifier gives the clean prompt.
C18_ForcedSkipsPrimaryClassifier ==
  \A s \in DOMAIN req :
    req[s].forcedId \in ModelIds
      => /\ req[s].primary = "none"
         /\ req[s].pc \notin {"classify_select", "classify_send", "classify_stream"}
         /\ req[s].taskType = FallbackLabel[req[s].cleanPrompt]

\* forced by @opus while a classifier model is configured, waiting for a backend
C18_Witness ==
  \E s \in DOMAIN req :
    /\ req[s].prompt = PromptOpus
    /\ req[s].forcedId = "claude-opus-4.5"
    /\ req[s].cleanPrompt # req[s].prompt
    /\ req[s].taskType = "architecture"
    /\ getModel(config.classifierModel) # Undefined
    /\ req[s].pc = "select"

\* the first @token of a prompt: what follows the first @ that a word
\* character follows, as far as word characters, dots and hyphens go
FirstToken(prompt) ==
  LET m == forceMatch(prompt)
  IN  IF m[1] = 0 THEN <<>> ELSE SubSeq(prompt, m[1] + 1, m[2])

\* the prompt without its first @token, @ included
WithoutFirstToken(prompt) ==
  LET m == forceMatch(prompt)
  IN  SubSeq(prompt, 1, m[1] - 1) \o SubSeq(prompt, m[2] + 1, Len(prompt))

\* the aliases a token is a spelling of: letter case and hyphens do not count
AliasesOf(token) ==
  {i \in 1..Len(modelPatterns) : token # <<>> /\ modelPatterns[i].key = aliasKey(token)}

\* C19: there are twelve aliases, each of a catalog model; a prompt whose
\* first @token is an alias forces the model of the alias and its clean
\* prompt is the prompt without the token (and without surrounding blanks);
\* any other prompt forces no model, so that the pending choice of the picker
\* stands, and its clean prompt is the prompt itself.
C19_AliasesForceTheirModels ==
  /\ Len(modelPatterns) = 12
  /\ \A i \in 1..Len(modelPatterns) : modelPatterns[i].id \in ModelIds
  /\ pure.op = "parseForce" /\ pure.done
       => LET aliases == AliasesOf(FirstToken(pure.prompt))
          IN  IF aliases # {}
              THEN /\ \A i \in aliases : pure.forcedId = modelPatterns[i].id
                   /\ pure.selectedModelDef = pure.forcedId
                   /\ pure.cleanPrompt = trim(WithoutFirstToken(pure.prompt))
              ELSE /\ pure.forcedId = pure.pending
                   /\ pure.cleanPrompt = pure.prompt

\* the primary classifier was called and had no backend
ClassifierUnavailable == {"no_backend", "select_threw"}

\* C20: under the default configuration, a completed request without a forced
\* model whose primary classifier was unavailable is charged to the default
\* route of its fallback label: the creditsByModel entry of that model and
\* totalCreditsUsed are what they were when the request came in plus the
\* model's creditMultiplier; for the unit-tests prompt the model is
\* claude-sonnet-4.5 and the multiplier 1.
C20_FallbackRouteIsCharged ==
  \A s \in DOMAIN req :
    /\ req[s].outcome = "success"
    /\ req[s].forcedId = "null"
    /\ req[s].primary \in ClassifierUnavailable
    => LET label == FallbackLabel[req[s].prompt]
           id == DEFAULT_TASK_ROUTING[label]
           multiplier == getModel(id).creditMultiplier
           before == req[s].statsBefore
           entry == IF id \in DOMAIN before.creditsByModel
                    THEN before.creditsByModel[id] ELSE D_0
       IN  /\ req[s].taskType = label
           /\ req[s].selectedModelDef = id
           /\ CreditEntry(sessionStats, id) = <<NumAdd(entry, multiplier)>>
           /\ sessionStats.totalCreditsUsed = NumAdd(before.totalCreditsUsed, multiplier)
           /\ \A m \in DOMAIN sessionStats.creditsByModel \ {id} :
                 CreditEntry(sessionStats, m) = CreditEntry(before, m)
           /\ req[s].prompt = PromptTests
                => label = "test" /\ id = "claude-sonnet-4.5" /\ multiplier = D_1

\* the unit-tests prompt completed after a request forced to claude-haiku-4.5
C20_Witness ==
  \E s \in DOMAIN req :
    /\ req[s].outcome = "success"
    /\ req[s].forcedId = "null"
    /\ req[s].primary = "no_backend"
    /\ req[s].prompt = PromptTests
    /\ req[s].statsBefore.totalCreditsUsed = D_033
    /\ sessionStats.totalCreditsUsed = NumAdd(D_033, D_1)
    /\ CreditEntry(sessionStats, "claude-sonnet-4.5") = <<D_1>>

\* C21: a request with the stats or the budget sub-command returns at once;
\* the step that handles it leaves sessionStats, lastRequest, the pending
\* forced model and the feedback log as they were, and the request has
\* called neither the classifier nor a backend.
C21_CommandsAreReadOnly ==
  [][\A s \in DOMAIN req :
       req'[s] # req[s] /\ req'[s].command \in {"stats", "budget"} /\ config.enabled
         => /\ sessionStats' = sessionStats
            /\ lastRequest' = lastRequest
            /\ forceModelId' = forceModelId
            /\ feedbackLog' = feedbackLog
            /\ req'[s].pc = "done"
            /\ req'[s].outcome = req'[s].command
            /\ req'[s].primary = "none"
            /\ req'[s].backend = "none"
            /\ req'[s].selStep = 0]_vars

\* a budget report after a completion and a click, while a choice is pending
C21_Witness ==
  \E s \in DOMAIN req :
    /\ req[s].outcome = "budget"
    /\ forceModelId # "null"
    /\ lastRequest.set
    /\ feedbackLog # <<>>
    /\ sessionStats.requestCount > 0

\* C22: two runs with the same prompt, pending choice, classifier answer and
\* configuration that differ in the credits used and in monthlyBudget come
\* to the same task type and the same model.
C22_BudgetNeverInfluencesRouting ==
  pure.op = "routingDecision" /\ pure.done
    => /\ pure.run[1].taskType = pure.run[2].taskType
       /\ pure.run[1].selectedModelDef = pure.run[2].selectedModelDef
       /\ pure.run[1].restricted = pure.run[2].restricted
       /\ pure.run[1].pc = pure.run[2].pc

\* one run far over a budget of 300, the other with nothing used of a budget
\* of 0, both routed to a model that costs credits
C22_Witness ==
  /\ pure.op = "routingDecision" /\ pure.done
  /\ pure.total = <<NumFromNat(301), D_0>>
  /\ pure.monthlyBudget = <<300, 0>>
  /\ pure.pending = "null"
  /\ pure.run[1].pc = "select"
  /\ pure.run[1].selectedModelDef = "claude-sonnet-4.5"
  /\ pure.run[2].statsBefore # pure.run[1].statsBefore

\* C23: the configuration a request's policy check reads (taskRouting,
\* blockedModels, maxCreditTier, at the step that takes the request to
\* backend selection) is the configuration the request read enabled,
\* showModelInfo, collectFeedback and monthlyBudget from when it came in.
C23_OneConfigurationVersion ==
  [][\A s \in DOMAIN req :
       req'[s].pc = "select" /\ req[s].pc # "select"
         => config = req'[s].config.version]_vars

\* the sum of the values of a function with a finite domain
RECURSIVE SumOver(_, _)
SumOver(f, keys) ==
  IF keys = {} THEN 0
  ELSE LET k == CHOOSE k \in keys : TRUE IN f[k] + SumOver(f, keys \ {k})

\* the completed requests, one set of feedback buttons each (collectFeedback
\* is on), that were charged to the model id
CompletedOn(id) == Cardinality({b \in buttons : b.modelName = id})

\* C24: with requests in flight together, in every state the statistics are
\* those of exactly the requests whose response was read to its end:
\* requestCount, the taskTypes counters, the credits of each model and their
\* total, and the input tokens all account for the same completions; no
\* completion is missing and none is counted in part.
C24_CompletionsAreAtomic ==
  LET n == Cardinality(buttons)
      tests == Cardinality({b \in buttons : b.taskType = "test"})
  IN  /\ sessionStats.requestCount = n
      /\ SumOver(sessionStats.taskTypes, DOMAIN sessionStats.taskTypes) = n
      /\ \A t \in DOMAIN sessionStats.taskTypes :
            sessionStats.taskTypes[t] = Cardinality({b \in buttons : b.taskType = t})
      /\ \A id \in DOMAIN sessionStats.creditsByModel :
            sessionStats.creditsByModel[id]
              = NumTimesNat(CompletedOn(id), getModel(id).creditMultiplier)
      /\ sessionStats.totalCreditsUsed = NumFromNat(CompletedOn("claude-sonnet-4.5"))
      /\ sessionStats.tokenCount.input
            = tests * Len(PromptTests) + (n - tests) * Len(PromptHello)
      /\ Cardinality({s \in DOMAIN req : req[s].outcome = "success"}) <= n
      /\ n <= started

\* two requests that were in flight together have both completed
C24_Witness ==
  /\ \A s \in Slots : req[s].outcome = "success" /\ req[s].statsBefore.requestCount = 0
  /\ req[1].selectedModelDef # req[2].selectedModelDef
  /\ sessionStats.requestCount = 2

\* C25: a request that has ended in no_model, request_failed or an error
\* has added nothing to the feedback log, and no entry of the log carries
\* its requestId: the entries are those of requests that completed.
C25_LogEntriesOfCompletedRequests ==
  \A s \in DOMAIN req :
    req[s].outcome \in {"no_model", "request_failed", "error"}
      => /\ req[s].overrides = 0
         /\ \A i \in 1..Len(feedbackLog) : feedbackLog[i].requestId # req[s].requestId

\* C26: an entry of the feedback log has overriddenTo set exactly when its
\* rating is 'override'.
C26_OverriddenToIffOverride ==
  \A i \in 1..Len(feedbackLog) :
    (feedbackLog[i].overriddenTo # "undefined") <=> (feedbackLog[i].rating = "override")

\* the log holds a rating given with a button and an override
C26_Witness ==
  /\ \E i \in 1..Len(feedbackLog) :
       feedbackLog[i].rating = "override" /\ feedbackLog[i].overriddenTo \in ModelIds
  /\ \E i \in 1..Len(feedbackLog) : feedbackLog[i].rating \in {"positive", "negative"}

\* C27: lastRequest is empty as long as no request has completed; a request
\* that has completed leaves its clean prompt, its requestId, the model it
\* was charged to and its task type there; while a request is in flight and
\* after one has ended in any other way, lastRequest is what it was when the
\* request came in.
C27_LastRequestIsLatestCompletion ==
  /\ lastRequest.set <=> sessionStats.requestCount > 0
  /\ \A s \in DOMAIN req :
       IF req[s].outcome = "success"
       THEN /\ lastRequest.set
            /\ lastRequest.prompt = req[s].cleanPrompt
            /\ lastRequest.requestId = req[s].requestId
            /\ lastRequest.modelId = req[s].selectedModelDef
            /\ lastRequest.taskType = req[s].taskType
       ELSE req[s].pc # "idle" => lastRequest = req[s].lastBefore

\* @opus has completed after an earlier completion
C27_Witness ==
  \E s \in DOMAIN req :
    /\ req[s].outcome = "success"
    /\ req[s].prompt = PromptOpus
    /\ req[s].lastBefore.set
    /\ lastRequest.requestId = req[s].requestId
    /\ lastRequest.prompt # req[s].prompt

\* the entries of a log with the rating r, all of them or those of model m
Rated(log, r) == Cardinality({i \in 1..Len(log) : log[i].rating = r})

RatedOn(log, r, m) ==
  Cardinality({i \in 1..Len(log) : log[i].rating = r /\ log[i].selectedModel = m})

\* C28: getFeedbackStats leaves the log as it is; its total is the length of
\* the log and the sum of positive, negative and overrides, which count the
\* entries of each rating; for each of the three the counts per model add up
\* to the overall count.
C28_FeedbackStatsIsAFold ==
  pure.op = "getFeedbackStats"
    => LET st == pure.stats
           models == DOMAIN st.byModel
       IN  /\ pure.logAfter = pure.log
           /\ st.total = Len(pure.log)
           /\ st.total = st.positive + st.negative + st.overrides
           /\ st.positive = Rated(pure.log, "positive")
           /\ st.negative = Rated(pure.log, "negative")
           /\ st.overrides = Rated(pure.log, "override")
           /\ st.positive = SumOver([m \in models |-> st.byModel[m].positive], models)
           /\ st.negative = SumOver([m \in models |-> st.byModel[m].negative], models)
           /\ st.overrides = SumOver([m \in models |-> st.byModel[m].overrides], models)
           /\ \A m \in models :
                 /\ st.byModel[m].positive = RatedOn(pure.log, "positive", m)
                 /\ st.byModel[m].overrides = RatedOn(pure.log, "override", m)

\* the statistics of a log with an override and a rating of two models
C28_Witness ==
  /\ pure.op = "getFeedbackStats"
  /\ pure.stats.overrides > 0
  /\ pure.stats.positive + pure.stats.negative > 0
  /\ Cardinality(DOMAIN pure.stats.byModel) = 2

\* the routing request is made under the default configuration, no model forced
DefaultRouting ==
  /\ pure.op = "getModelForTask"
  /\ pure.routed = "" /\ pure.blocked = {} /\ pure.ceiling = "premium"
  /\ pure.forced = "null"

\* C29: there are 13 task types; under the default configuration the model
\* the default routing table names for a task type is in the catalog and
\* passes the policy, so getModelForTask returns it from its default branch
\* (line 196) and the request goes on with it, without a restriction notice.
C29_DefaultsPassDefaultPolicy ==
  /\ Len(TASK_TYPES_LIST) = 13
  /\ Cardinality(TaskTypes) = 13
  /\ DefaultRouting
       => LET byDefault == getModel(DEFAULT_TASK_ROUTING[pure.taskType])
          IN  /\ byDefault # Undefined
              /\ byDefault.id \in ModelIds
              /\ isModelAllowed(byDefault, routerConfiguration(pure))
              /\ pure.done => /\ pure.chosen = byDefault.id
                               /\ ~pure.notice
                               /\ pure.proceeds

\* a task type whose default model is of the highest tier has been routed
C29_Witness ==
  /\ DefaultRouting
  /\ pure.done
  /\ pure.taskType = "architecture"
  /\ pure.chosen = "claude-opus-4.5"

\* the catalog models a backend of the family is a backend of
ModelsOfFamily(family) == {id \in ModelIds : getModel(id).family = family}

\* C30: the backend a request is executed with, whether it is the one of the
\* chosen model, one of the fallback chain or the first of the vendor, is a
\* backend of a model that the configuration does not block and that is
\* not above maxCreditTier.
C30_BackendWithinPolicy ==
  \A s \in DOMAIN req :
    req[s].backend # "none"
      => \A id \in ModelsOfFamily(req[s].backend) :
           PassesPolicy(id, config.blockedModels, config.maxCreditTier)
\* the output holds, somewhere, TASK: followed by the spelling of a task type
HoldsTaskLabel(result) ==
  \E t \in TaskTypes :
    indexOfSubstring(toLowerCase(result), <<"t","a","s","k",":">> \o TaskTypeText[t]) > 0

\* C31 as stated: a request whose classifier answered is labelled by the
\* primary classifier exactly when the answer contains TASK:<label> with one
\* of the 13 labels.
C31_PrimaryLabelWheneverOutputHoldsOne ==
  \A s \in DOMAIN req :
    req[s].primary \in {"answered", "unparsed"}
      => (req[s].primary = "answered" <=> HoldsTaskLabel(req[s].result))

\* C31, amended: the label is the primary classifier's exactly when the
\* first TASK: tag of the answer is followed by a run of non-blank characters
\* that is, in lower case, one of the 13 task types as a whole; in every
\* other case (no such tag, a longer or unknown word, classifier missing,
\* unavailable or throwing) it is fallbackClassify of the prompt; the
\* classifier's sendRequest is called at most once per request and a request
\* that has fallen back never waits for the classifier again.
C31_PrimaryLabelIffFirstTagIsKnown ==
  \A s \in DOMAIN req :
    LET rec == req[s]
        word == toLowerCase(matchTask(rec.result))
    IN  /\ rec.classifierCalls <= 1
        /\ rec.primary = "answered"
             => /\ rec.taskType \in TaskTypes
                /\ TaskTypeText[rec.taskType] = word
        /\ rec.primary = "unparsed"
             => /\ \A t \in TaskTypes : TaskTypeText[t] # word
                /\ rec.taskType = FallbackLabel[rec.cleanPrompt]
        /\ rec.primary \in ClassifierFailures
             => /\ rec.taskType = FallbackLabel[rec.cleanPrompt]
                /\ rec.pc \notin {"classify_select", "classify_send", "classify_stream"}
        /\ rec.pc \in {"classify_select", "classify_send"} => rec.classifierCalls = 0
        /\ (rec.forcedId = "null" /\ rec.pc \in {"select", "send", "stream"})
             => rec.primary \in ClassifierFailures \cup {"answered"}

\* the classifier answered TASK:debug. and the request was labelled by the
\* fallback classifier, after one call of the classifier
C31_Witness ==
  \E s \in DOMAIN req :
    /\ req[s].result = OutDotted
    /\ req[s].primary = "unparsed"
    /\ req[s].taskType = "test"
    /\ req[s].classifierCalls = 1
\* C32: a LanguageModelError thrown by sendRequest or by the response stream
\* is written to the response and the handler returns request_failed; any
\* other error thrown there leaves the handler; either way sessionStats and
\* lastRequest are as they were when the request arrived.
C32_ExecutionErrorsReportedOrPropagated ==
  \A s \in DOMAIN req :
    LET rec == req[s]
    IN  /\ rec.thrown = "LanguageModelError"
             => /\ rec.pc = "done" /\ rec.outcome = "request_failed"
                /\ rec.errorAt = "none" /\ rec.reported
        /\ rec.thrown \notin {"none", "LanguageModelError"}
             => /\ rec.pc = "done" /\ rec.outcome = "error"
                /\ rec.errorAt = "execution" /\ ~rec.reported
        /\ rec.thrown # "none"
             => /\ sessionStats = rec.statsBefore
                /\ lastRequest = rec.lastBefore
                /\ rec.executionCalls = 1
        /\ rec.outcome = "request_failed" => rec.thrown = "LanguageModelError"

\* after a completed request, the stream of the next one threw an Error that
\* is not a LanguageModelError once a chunk had been written
C32_Witness ==
  \E s \in DOMAIN req :
    /\ req[s].thrown = "Error"
    /\ req[s].chunks > 0
    /\ req[s].outcome = "error"
    /\ lastRequest.set
    /\ sessionStats.requestCount = 1
\* C33: no step lowers requestCount, either token count, totalCreditsUsed,
\* an entry of creditsByModel or an entry of taskTypes, and no step removes a
\* key of creditsByModel or of taskTypes.
C33_StatsNeverDecrease ==
  [][/\ sessionStats.requestCount <= sessionStats'.requestCount
     /\ sessionStats.tokenCount.input <= sessionStats'.tokenCount.input
     /\ sessionStats.tokenCount.output <= sessionStats'.tokenCount.output
     /\ NumLeq(sessionStats.totalCreditsUsed, sessionStats'.totalCreditsUsed)
     /\ DOMAIN sessionStats.creditsByModel \subseteq DOMAIN sessionStats'.creditsByModel
     /\ \A m \in DOMAIN sessionStats.creditsByModel :
          NumLeq(sessionStats.creditsByModel[m], sessionStats'.creditsByModel[m])
     /\ DOMAIN sessionStats.taskTypes \subseteq DOMAIN sessionStats'.taskTypes
     /\ \A t \in DOMAIN sessionStats.taskTypes :
          sessionStats.taskTypes[t] <= sessionStats'.taskTypes[t]]_vars

\* two completions charged to two models, one of them free of charge
C33_Witness ==
  /\ sessionStats.requestCount = 2
  /\ DOMAIN sessionStats.creditsByModel = {"gpt-4o", "claude-opus-4.5"}
  /\ sessionStats.creditsByModel["gpt-4o"] = D_0
  /\ sessionStats.creditsByModel["claude-opus-4.5"] = D_3
\* C34: the model getRecommendedModel returns is not blocked, is not above
\* the ceiling, and is the model getModelForTask returns for the same task
\* type and settings.
C34_RecommendedWithinPolicy ==
  pure.op = "getRecommendedModel" /\ pure.done
    => /\ PassesPolicy(pure.recommended, pure.blocked, pure.ceiling)
       /\ pure.recommended = pure.forTask
\* the model of the alias a prompt names, "null" when it names none
RecognizedAlias == [p \in LastPrompts |-> IF p = PromptOpus THEN "claude-opus-4.5" ELSE "null"]

C36_SubstituteBackendChargedToSelected ==
  \A s \in DOMAIN req :
    req[s].outcome = "success" /\ req[s].selStep > 0
    => LET id == req[s].selectedModelDef
           multiplier == getModel(id).creditMultiplier
           before == req[s].statsBefore
           entry == IF id \in DOMAIN before.creditsByModel
                    THEN before.creditsByModel[id] ELSE D_0
       IN  /\ CreditEntry(sessionStats, id) = <<NumAdd(entry, multiplier)>>
           /\ sessionStats.totalCreditsUsed = NumAdd(before.totalCreditsUsed, multiplier)
           /\ DOMAIN sessionStats.creditsByModel = DOMAIN before.creditsByModel \cup {id}
           /\ \A m \in DOMAIN sessionStats.creditsByModel \ {id} :
                 CreditEntry(sessionStats, m) = CreditEntry(before, m)
           /\ lastRequest.set /\ lastRequest.modelId = id
           /\ lastRequest.requestId = req[s].requestId

\* a request for claude-haiku-4.5 was completed by the vendor's first backend,
\* one of claude-opus, and charged 0.33 credits
C36_Witness ==
  \E s \in DOMAIN req :
    /\ req[s].outcome = "success"
    /\ req[s].selStep = Len(FALLBACKS) + 1
    /\ req[s].backend = "claude-opus"
    /\ req[s].selectedModelDef = "claude-haiku-4.5"
    /\ sessionStats.creditsByModel = [m \in {"claude-haiku-4.5"} |-> D_033]
    /\ sessionStats.totalCreditsUsed = D_033
\* the response of request s has just been read to its end
ResponseRead(s) ==
  req[s].pc = "stream" /\ req'[s].pc = "done" /\ req'[s].outcome = "success"

\* C37: requestCount is the sum of the taskTypes counts and the number of
\* requests whose response was read to its end (each of them got its
\* feedback buttons); a step that reads a response to its end adds 1 to
\* requestCount and to the entry of the request's task type and to no other
\* entry, and no other step changes either.
C37_RequestCountIsCompletions ==
  /\ [](/\ sessionStats.requestCount = SumOver(sessionStats.taskTypes, DOMAIN sessionStats.taskTypes)
        /\ sessionStats.requestCount = Cardinality(buttons))
  /\ [][/\ \A s \in DOMAIN req :
            ResponseRead(s)
              => /\ sessionStats'.requestCount = sessionStats.requestCount + 1
                 /\ DOMAIN sessionStats'.taskTypes
                      = DOMAIN sessionStats.taskTypes \cup {req[s].taskType}
                 /\ \A t \in DOMAIN sessionStats'.taskTypes :
                      sessionStats'.taskTypes[t]
                        = (IF t \in DOMAIN sessionStats.taskTypes
                           THEN sessionStats.taskTypes[t] ELSE 0)
                          + (IF t = req[s].taskType THEN 1 ELSE 0)
        /\ (\A s \in DOMAIN req : ~ResponseRead(s))
              => /\ sessionStats'.requestCount = sessionStats.requestCount
                 /\ sessionStats'.taskTypes = sessionStats.taskTypes]_vars

\* one request completed and counted under its task type; the response of
\* the next one broke off after a chunk and is not counted
C37_Witness ==
  /\ sessionStats.requestCount = 1
  /\ sessionStats.taskTypes = [t \in {"architecture"} |-> 1]
  /\ Cardinality(buttons) = 1
  /\ started = 2
  /\ \E s \in DOMAIN req : req[s].outcome = "error" /\ req[s].chunks > 0
\* C38: the step that takes a request in appends at most one entry to the
\* feedback log, and appends one only when the request is forced and
\* lastRequest holds a completed request of another model id; the entry is
\* the override of that request; the later steps of a request append nothing.
C38_HandlerAppendsOnlyOverrides ==
  [][/\ \A s \in DOMAIN req :
          started' = started + 1 /\ req'[s].requestId = started'
            => LET rec == req'[s]
               IN  /\ pushes' - pushes = rec.overrides
                   /\ rec.overrides <= 1
                   /\ rec.forcedId = "null" => pushes' = pushes
                   /\ ~lastRequest.set => pushes' = pushes
                   /\ pushes' # pushes
                        => /\ lastRequest.modelId # rec.forcedId
                           /\ feedbackLog'[Len(feedbackLog')].requestId = rec.requestId
                           /\ feedbackLog'[Len(feedbackLog')].rating = "override"
                           /\ feedbackLog'[Len(feedbackLog')].selectedModel = lastRequest.modelId
                   /\ pushes' = pushes => feedbackLog' = feedbackLog
     /\ started' = started => pushes' = pushes /\ feedbackLog' = feedbackLog]_vars

\* the second request, forced to another model than the first, has appended
\* its one entry and completed
C38_Witness ==
  \E s \in DOMAIN req :
    /\ req[s].overrides = 1
    /\ req[s].outcome = "success"
    /\ req[s].lastBefore.set
    /\ pushes = 1
    /\ Len(feedbackLog) = 1
    /\ feedbackLog[1].requestId = req[s].requestId
\* C39: no rule of the fallback classifier has the label long-context; a
\* request is labelled long-context only when it was not forced and the
\* primary classifier answered with that label, and under the default
\* routing only such a request is routed to gemini-2.5-pro.
C39_LongContextOnlyFromPrimary ==
  /\ \A i \in 1..Len(FALLBACK_RULES) : FALLBACK_RULES[i].label # "long-context"
  /\ \A s \in DOMAIN req :
       LET rec == req[s]
       IN  /\ rec.taskType = "long-context"
                => /\ rec.forcedId = "null"
                   /\ rec.primary = "answered"
                   /\ toLowerCase(matchTask(rec.result)) = TaskTypeText["long-context"]
           /\ rec.forcedId # "null" \/ rec.primary \in ClassifierFailures
                => rec.taskType # "long-context"
           /\ rec.forcedId = "null" /\ rec.selectedModelDef = "gemini-2.5-pro"
                => rec.taskType = "long-context"

\* the prompt that speaks of a long-context log: labelled function when it is
\* forced to gemini-2.5-pro, after a request the primary classifier labelled
\* long-context
C39_Witness ==
  \E s \in DOMAIN req :
    /\ req[s].prompt = PromptLong
    /\ req[s].forcedId = "gemini-2.5-pro"
    /\ req[s].taskType = "function"
    /\ req[s].lastBefore.set
    /\ req[s].lastBefore.taskType = "long-context"
\* a request is under way
Suspended == \E s \in DOMAIN req : req[s].pc \notin {"idle", "done"}

Outcomes == {"disabled", "stats", "budget", "no_model", "request_failed", "success", "error"}

\* C40: a request under way eventually ends; it ends with one of the seven
\* outcomes and keeps it; and at no moment has it called the classifier or
\* the execution more than once, or selectChatModels for a backend more than
\* five times.
C40_EveryRequestTerminates ==
  /\ Suspended ~> ~Suspended
  /\ [](\A s \in DOMAIN req :
          /\ req[s].classifierCalls <= 1
          /\ req[s].selectionCalls <= Len(FALLBACKS) + 2
          /\ req[s].executionCalls <= 1
          /\ req[s].pc = "done" <=> req[s].outcome \in Outcomes
          /\ req[s].pc # "done" => req[s].outcome = "none")
  /\ [][\A s \in DOMAIN req :
          req[s].pc = "done" => req'[s] = req[s] \/ started' = started + 1]_vars

\* a request that called selectChatModels five times and ended without a backend
C40_Witness ==
  \E s \in DOMAIN req :
    /\ req[s].pc = "done"
    /\ req[s].outcome = "no_model"
    /\ req[s].selectionCalls = 5
    /\ req[s].classifierCalls = 1
    /\ req[s].executionCalls = 0
====
